---- MODULE Spec2Model ----
(***************************************************************************)
(* A model of DiskAnalyzer (src/analyzer.py): one long-lived analyzer      *)
(* instance, its scan() entry point with the result cache, the five scan   *)
(* strategies, the shared accumulators and the cooperative stop flag.      *)
(*                                                                         *)
(* A Python dict is a record or a function whose DOMAIN is its key set, so *)
(* "the result has no 'error' key" reads "error" \notin DOMAIN result.     *)
(* dir_sizes is kept as a sequence of key/value pairs because the code     *)
(* depends on the dict's insertion order (a stable sort over .items()).    *)
(***************************************************************************)
EXTENDS Integers, Sequences, FiniteSets, TLC

(***************************************************************************)
(* Bounds of the model.                                                    *)
(***************************************************************************)
\* scan() calls made on the one analyzer instance
MaxScans == 2
\* environment failures injected into one scan() call on a new instance
MaxFaults == 2
\* environment failures injected into a sequence of scan() calls
MaxRunFaults == 1
\* the clock advances in steps of TickStep seconds, up to MaxTime
TickStep == 300
MaxTime == 900
\* self.top_n_limit (src/analyzer.py:56 sets 50), scaled to the model's trees
top_n_limit == 2
\* batch_size of _scan_fast_find (src/analyzer.py:309 sets 1000), scaled
batch_size == 2
\* the tallest terminal the browser is shown on
MaxHeight == 6

(***************************************************************************)
(* Program constants.                                                      *)
(***************************************************************************)
CacheTTL == 600
NumWorkers == 4
PoolCap == 8
SubmitCap == 50
ChildCap == 100
CleanableCap == 200
ResultCleanableCap == 100
ResultTopCap == 50
SuggestionCap == 50
HistoryDays == 30
\* what _get_disk_usage reports for the volume of the root
DiskUsage == 75
\* tui.py: the rows that are not list rows (max_display = height - 4), and
\* the lowest terminal that shows a list row
TitleRows == 4
MinHeight == 5

(***************************************************************************)
(* The file system under the root.  Paths are strings; a file is a record  *)
(* of its path, its directory, its size and its position in a directory    *)
(* listing.                                                                *)
(***************************************************************************)
RootPath == "/r"

fa == [path |-> "/r/a.tmp",      dir |-> "/r",      size |-> 1, mtime |-> 1, link |-> FALSE]
fb == [path |-> "/r/d1/b.log",   dir |-> "/r/d1",   size |-> 2, mtime |-> 2, link |-> FALSE]
fc == [path |-> "/r/d1/s/c.bin", dir |-> "/r/d1/s", size |-> 3, mtime |-> 3, link |-> FALSE]
fd == [path |-> "/r/etc/d.tmp",   dir |-> "/r/etc",   size |-> 2, mtime |-> 4, link |-> FALSE]
\* a symbolic link in the root to a file outside the tree; size is what
\* os.path.getsize returns for it, the size of the file it points to.
\* (A symbolic link to a directory is listed by os.walk under dirs and not
\* descended into, is no directory for scandir's test and no file for find:
\* it adds nothing to any strategy and is not part of the trees.)
fl == [path |-> "/r/l.lnk",      dir |-> "/r",      size |-> 3, mtime |-> 5, link |-> TRUE]
\* a compiled Python file in the root: its path matches the exclusion rule
\* \.pyc$ and the cleanable rule `cached`, and it is the largest file
fp == [path |-> "/r/cached.pyc", dir |-> "/r",      size |-> 4, mtime |-> 6, link |-> FALSE]

\* the bytes of a file, as an identifier: b.log and etc/d.tmp hold the same
\* bytes, every other file differs from every other
ContentOf(f) == IF f.path \in {"/r/d1/b.log", "/r/etc/d.tmp"} THEN "x" ELSE f.path

\* the order in which a listing (os.walk, os.scandir, find) yields things is
\* the directory order of the file system, which need not be the order of the
\* names: "name" lists d1 before etc, "hash" lists etc before d1
VARIABLE listing

FileOrder ==
  IF listing = "name" THEN <<fa, fp, fb, fc, fd, fl>> ELSE <<fa, fp, fd, fb, fc, fl>>
DirOrder ==
  IF listing = "name" THEN <<"/r", "/r/d1", "/r/d1/s", "/r/etc">>
  ELSE <<"/r", "/r/etc", "/r/d1", "/r/d1/s">>

\* the trees a behaviour may scan: an empty root, two populated ones, one
\* with a symbolic link, one with an excluded file and one with nothing else
Trees == { {}, {fa, fb, fc}, {fb, fc, fd}, {fb, fl}, {fb, fp}, {fp} }

\* os.path.dirname on the model's paths
Dirname(p) ==
  CASE p = "/r/d1"         -> "/r"
    [] p = "/r/etc"         -> "/r"
    [] p = "/r/d1/s"       -> "/r/d1"
    [] p = "/r/a.tmp"      -> "/r"
    [] p = "/r/d1/b.log"   -> "/r/d1"
    [] p = "/r/d1/s/c.bin" -> "/r/d1/s"
    [] p = "/r/etc/d.tmp"   -> "/r/etc"
    [] p = "/r/l.lnk"      -> "/r"
    [] p = "/r/cached.pyc" -> "/r"
    [] OTHER               -> "/"

\* d is top or lies below it
RECURSIVE IsUnder(_, _)
IsUnder(top, d) ==
  IF d = top THEN TRUE ELSE IF d = "/r" \/ d = "/" THEN FALSE ELSE IsUnder(top, Dirname(d))

\* root[len(top):].count(os.sep), for a directory root that os.walk(top) yields
RECURSIVE DepthBelow(_, _)
DepthBelow(top, d) ==
  IF d = top \/ ~IsUnder(top, d) THEN 0 ELSE 1 + DepthBelow(top, Dirname(d))

\* the directories that exist in a tree: the root and every ancestor of a file
DirsOf(tree) == {d \in {DirOrder[i] : i \in 1..Len(DirOrder)} :
                   d = RootPath \/ \E f \in tree : IsUnder(d, f.dir)}

(***************************************************************************)
(* Sequence helpers.                                                       *)
(***************************************************************************)
Min(a, b) == IF a < b THEN a ELSE b
Max(a, b) == IF a > b THEN a ELSE b

RECURSIVE SumSizes(_)
SumSizes(s) == IF s = <<>> THEN 0 ELSE Head(s).size + SumSizes(Tail(s))

RECURSIVE SumSet(_)
SumSet(S) == IF S = {} THEN 0
             ELSE LET x == CHOOSE y \in S : TRUE IN x.size + SumSet(S \ {x})

Take(s, n) == SubSeq(s, 1, Min(n, Len(s)))

RECURSIVE Filter(_, _)
Filter(s, S) ==
  IF s = <<>> THEN <<>>
  ELSE IF Head(s) \in S THEN <<Head(s)>> \o Filter(Tail(s), S) ELSE Filter(Tail(s), S)

(***************************************************************************)
(* Path classification, evaluated on the model's paths.                    *)
(***************************************************************************)
\* os.path.basename
Basename(p) ==
  CASE p = "/r"      -> "r"
    [] p = "/r/d1"   -> "d1"
    [] p = "/r/etc"   -> "etc"
    [] p = "/r/d1/s" -> "s"
    [] OTHER         -> p

\* os.path.splitext(name)[1].lower() or 'no_ext'
ExtOf(path) ==
  CASE path = "/r/a.tmp"      -> ".tmp"
    [] path = "/r/d1/b.log"   -> ".log"
    [] path = "/r/d1/s/c.bin" -> ".bin"
    [] path = "/r/etc/d.tmp"  -> ".tmp"
    [] path = "/r/l.lnk"      -> ".lnk"
    [] path = "/r/cached.pyc" -> ".pyc"
    [] OTHER                  -> "no_ext"

\* should_skip without the test of the patterns
should_skip_Nothing(path) == FALSE

\* exclude_patterns: ^/proc/, ^/sys/, ^/dev/, /.git/, /__pycache__/, \.pyc$
\* (and the Windows rules); of the model's paths only \.pyc$ matches one
should_skip(path) == ExtOf(path) = ".pyc"

\* cleanable_patterns, first match wins: "none" when no pattern matches.
\* a.tmp matches \.tmp$ (the third pattern), b.log matches \.log$ (the second)
CleanableType(path) ==
  CASE path = "/r/a.tmp"     -> "temp"
    [] path = "/r/cached.pyc" -> "cache"
    [] path = "/r/d1/b.log"  -> "log"
    [] path = "/r/etc/d.tmp" -> "temp"
    [] OTHER                -> "none"

\* position of a path in the lexicographic order of the model's paths
\* (Python compares the (size, path) tuples of the heap by size, then path)
PathRank(path) ==
  CASE path = "/r/a.tmp"      -> 1
    [] path = "/r/cached.pyc" -> 2
    [] path = "/r/d1/b.log"   -> 3
    [] path = "/r/d1/s/c.bin" -> 4
    [] path = "/r/etc/d.tmp"   -> 5
    [] path = "/r/l.lnk"      -> 6
    [] OTHER                  -> 0

\* (size, path) < (size, path) on tuples
TupleLess(a, b) ==
  \/ a[1] < b[1]
  \/ a[1] = b[1] /\ PathRank(a[2]) < PathRank(b[2])

(***************************************************************************)
(* heapq on a list: heap[pos] of Python is h[pos + 1] here.                *)
(***************************************************************************)
\* heapq._siftdown(heap, startpos, pos), with newitem already taken out
RECURSIVE SiftDown(_, _, _, _)
SiftDown(h, startpos, pos, newitem) ==
  IF pos > startpos
  THEN LET parentpos == (pos - 1) \div 2
           parent == h[parentpos + 1]
       IN IF TupleLess(newitem, parent)
          THEN SiftDown([h EXCEPT ![pos + 1] = parent], startpos, parentpos, newitem)
          ELSE [h EXCEPT ![pos + 1] = newitem]
  ELSE [h EXCEPT ![pos + 1] = newitem]

\* heapq.heappush(heap, item)
HeapPush(h, item) ==
  LET g == Append(h, item) IN SiftDown(g, 0, Len(g) - 1, item)

\* the loop of heapq._siftup: move the smaller child up until a leaf is hit
RECURSIVE SiftUpLoop(_, _, _)
SiftUpLoop(h, pos, newitem) ==
  LET endpos == Len(h)
      childpos == 2 * pos + 1
      rightpos == childpos + 1
      c == IF rightpos < endpos /\ ~TupleLess(h[childpos + 1], h[rightpos + 1])
           THEN rightpos ELSE childpos
  IN IF childpos < endpos
     THEN SiftUpLoop([h EXCEPT ![pos + 1] = h[c + 1]], c, newitem)
     ELSE SiftDown([h EXCEPT ![pos + 1] = newitem], 0, pos, newitem)

\* heapq.heapreplace(heap, item): heap[0] = item, then _siftup(heap, 0)
HeapReplace(h, item) == SiftUpLoop([h EXCEPT ![1] = item], 0, item)

\* sorted(self.top_files, reverse=True)
RECURSIVE InsertDesc(_, _)
InsertDesc(s, x) ==
  IF s = <<>> THEN <<x>>
  ELSE IF TupleLess(Head(s), x) THEN <<x>> \o s
  ELSE <<Head(s)>> \o InsertDesc(Tail(s), x)

RECURSIVE SortedDesc(_)
SortedDesc(s) == IF s = <<>> THEN <<>> ELSE InsertDesc(SortedDesc(Tail(s)), Head(s))

\* the top-K step of _process_batch_fast for one file
TopInsert(top, size, path) ==
  IF Len(top) < top_n_limit THEN HeapPush(top, <<size, path>>)
  ELSE IF size > top[1][1] THEN HeapReplace(top, <<size, path>>)
  ELSE top

(***************************************************************************)
(* Dicts.                                                                  *)
(***************************************************************************)
\* d[k] += v on a defaultdict(int) held as a function
FnAdd(d, k, v) ==
  IF k \in DOMAIN d THEN [d EXCEPT ![k] = @ + v] ELSE d @@ (k :> v)

EmptyFn == [x \in {} |-> 0]

\* an ordered dict as a sequence of [k, v]
RECURSIVE HasKey(_, _)
HasKey(od, k) == od # <<>> /\ (Head(od).k = k \/ HasKey(Tail(od), k))

RECURSIVE OdGet(_, _)
OdGet(od, k) ==
  IF od = <<>> THEN 0 ELSE IF Head(od).k = k THEN Head(od).v ELSE OdGet(Tail(od), k)

\* od[k] = v: in place when the key exists, appended otherwise
OdSet(od, k, v) ==
  IF HasKey(od, k)
  THEN [i \in 1..Len(od) |-> IF od[i].k = k THEN [k |-> k, v |-> v] ELSE od[i]]
  ELSE Append(od, [k |-> k, v |-> v])

OdAdd(od, k, v) == OdSet(od, k, OdGet(od, k) + v)

(***************************************************************************)
(* Aggregation and result assembly.                                        *)
(***************************************************************************)
\* a percentage in hundredths of a percent: size / total * 100, 0 for total 0
Pct(size, total) == IF total > 0 THEN (size * 100 * 100) \div total ELSE 0

\* the literal 100 the code gives every root node
RootPercentage == 100 * 100

\* _identify_cleanable_file_fast
IdentifyCleanable(cl, fi) ==
  IF CleanableType(fi.path) # "none"
  THEN Append(cl, [path |-> fi.path, size |-> fi.size, type |-> CleanableType(fi.path)])
  ELSE cl

\* one iteration of the loop of _process_batch_fast over the accumulators
\* acc = [ft: file_types, top: top_files, cl: cleanable_files, ds: dir_sizes]
ProcessFile(acc, fi) ==
  LET ext == IF "ext" \in DOMAIN fi THEN fi.ext ELSE "no_ext"
      ds1 == OdAdd(acc.ds, Dirname(fi.path), fi.size)
  IN [ft  |-> FnAdd(acc.ft, ext, fi.size),
      top |-> TopInsert(acc.top, fi.size, fi.path),
      cl  |-> IdentifyCleanable(acc.cl, fi),
      ds  |-> OdAdd(ds1, RootPath, fi.size)]

\* _process_batch_fast(files, dir_sizes)
RECURSIVE ProcessBatch(_, _)
ProcessBatch(acc, files) ==
  IF files = <<>> THEN acc ELSE ProcessBatch(ProcessFile(acc, Head(files)), Tail(files))

\* the tree of an empty dir_sizes, of _scan_du's failure, of the error result
LeafTree(size) ==
  [path |-> RootPath, name |-> Basename(RootPath), size |-> size,
   children |-> <<>>, percentage |-> RootPercentage]

\* sorted(items, key=size, reverse=True): stable, ties keep insertion order
RECURSIVE StableInsert(_, _)
StableInsert(s, x) ==
  IF s = <<>> THEN <<x>>
  ELSE IF Head(s).v >= x.v THEN <<Head(s)>> \o StableInsert(Tail(s), x)
  ELSE <<x>> \o s

RECURSIVE StableSortDesc(_)
StableSortDesc(s) ==
  IF s = <<>> THEN <<>>
  ELSE StableInsert(StableSortDesc(SubSeq(s, 1, Len(s) - 1)), s[Len(s)])

RECURSIVE ChildDirs(_)
ChildDirs(ds) ==
  IF ds = <<>> THEN <<>>
  ELSE IF Head(ds).k # RootPath /\ Dirname(Head(ds).k) = RootPath
       THEN <<Head(ds)>> \o ChildDirs(Tail(ds))
       ELSE ChildDirs(Tail(ds))

\* _build_tree_from_dirs(dir_sizes)
BuildTreeFromDirs(ds) ==
  IF ds = <<>> THEN LeafTree(0)
  ELSE LET root_size == OdGet(ds, RootPath)
           kept == Take(StableSortDesc(ChildDirs(ds)), ChildCap)
       IN [path |-> RootPath, name |-> Basename(RootPath), size |-> root_size,
           children |-> [i \in 1..Len(kept) |->
                           [path |-> kept[i].k, name |-> Basename(kept[i].k),
                            size |-> kept[i].v, children |-> <<>>,
                            percentage |-> Pct(kept[i].v, root_size)]],
           percentage |-> RootPercentage]

\* the level _build_result gives a cleanable path: substrings of path.lower()
\* (b.log holds 'log', etc/d.tmp holds 'etc', a.tmp holds none of the words)
SecurityLevel(path) ==
  CASE path = "/r/d1/b.log"  -> 2
    [] path = "/r/etc/d.tmp" -> 1
    [] OTHER                 -> 4

\* the table is keyed from the wrong end: 1 is the safest level
SecuritySuggestion_Reversed(level) ==
  CASE level = 4 -> "high risk, never delete"
    [] level = 3 -> "medium risk, back up before deleting"
    [] level = 2 -> "low risk, safe to delete"
    [] level = 1 -> "safe, delete freely"
    [] OTHER     -> "evaluate carefully"

\* _get_security_suggestion(level)
SecuritySuggestion(level) ==
  CASE level = 1 -> "high risk, never delete"
    [] level = 2 -> "medium risk, back up before deleting"
    [] level = 3 -> "low risk, safe to delete"
    [] level = 4 -> "safe, delete freely"
    [] OTHER     -> "evaluate carefully"

\* _generate_mock_history: HistoryDays entries <<usage, size>>, the size
\* int(base_size * (1.0 + (i % 10 - 5) * 0.02)) in exact arithmetic
MockHistory(base_size) ==
  [j \in 1..HistoryDays |->
     LET i == j - 1
     IN <<Min(95, 40 + (i % 10) * 3 + (i \div 10) * 2),
          (base_size * (100 + 2 * ((i % 10) - 5))) \div 100>>]

TopList(top) == [i \in 1..Len(top) |-> [path |-> top[i][2], size |-> top[i][1]]]

\* _build_result(dir_tree), after _post_process left top, cl and hist
BuildResult(dir_tree, ft, top, cl, hist, stats, time) ==
  LET total_size == dir_tree.size
      flat == [i \in 1..Len(dir_tree.children) |->
                 [path |-> dir_tree.children[i].path,
                  size |-> dir_tree.children[i].size,
                  percentage |-> Pct(dir_tree.children[i].size, total_size)]]
      sug == Take(cl, SuggestionCap)
  IN [path |-> RootPath,
      total_size |-> total_size,
      dir_tree |-> dir_tree,
      flat_dirs |-> Take(flat, ChildCap),
      file_types |-> ft,
      duplicate_files |-> EmptyFn,
      cleanable_files |-> Take(cl, ResultCleanableCap),
      security_suggestions |->
         [i \in 1..Len(sug) |->
            [path |-> sug[i].path, size |-> sug[i].size,
             security_level |-> SecurityLevel(sug[i].path), whitelist |-> FALSE,
             suggestion |-> SecuritySuggestion(SecurityLevel(sug[i].path))]],
      history_data |-> hist,
      disk_usage |-> DiskUsage,
      top_files |-> TopList(Take(top, ResultTopCap)),
      scan_stats |-> stats,
      scan_time |-> time]

\* _create_partial_result()
CreatePartialResult(ft, top, cl, stats) ==
  [path |-> RootPath,
   total_size |-> stats.scanned_bytes,
   dir_tree |-> LeafTree(stats.scanned_bytes),
   flat_dirs |-> <<>>,
   file_types |-> ft,
   duplicate_files |-> EmptyFn,
   cleanable_files |-> cl,
   security_suggestions |-> <<>>,
   history_data |-> <<>>,
   disk_usage |-> DiskUsage,
   top_files |-> TopList(top),
   partial |-> TRUE,
   scan_stats |-> stats]

\* _create_error_result(msg)
CreateErrorResult(stats) ==
  [path |-> RootPath, total_size |-> 0, dir_tree |-> LeafTree(0),
   error |-> "scan failed", scan_stats |-> stats]

(***************************************************************************)
(* Traversal orders and the external tools.                                *)
(***************************************************************************)
FilesIn(tree, d) == Filter(FileOrder, {f \in tree : f.dir = d})

\* the directories os.walk(top) yields, top-down: a directory deeper than
\* max_depth is yielded but its subdirectories are pruned (del dirs[:]), and
\* an excluded directory is never entered
WalkSeq(tree, top, depth) ==
  Filter(DirOrder, {d \in DirsOf(tree) :
                      /\ IsUnder(top, d)
                      /\ DepthBelow(top, d) <= depth + 1
                      /\ d # top => ~should_skip(d)})

\* the records find prints: every regular file (-type f leaves symbolic
\* links out), in listing order
FindLines(tree) == Filter(FileOrder, {f \in tree : ~f.link})

\* the entries of the root that pass `entry.is_file() and not
\* entry.is_symlink()` in the root-level pass of _scan_fast_walk
RootFiles(tree) == Filter(FilesIn(tree, RootPath), {f \in tree : ~f.link})

\* the first-level subdirectories _scan_fast_walk collects
FirstLevelDirs(tree) ==
  Filter(DirOrder, {d \in DirsOf(tree) : d # RootPath /\ Dirname(d) = RootPath
                                           /\ ~should_skip(d)})

SeqToSet(s) == {s[i] : i \in 1..Len(s)}

\* the file_info dict the walking strategies build for a file
WalkInfo(f) == [path |-> f.path, size |-> f.size, ext |-> ExtOf(f.path)]

\* the file_info dict _scan_fast_find builds from a find record (no 'ext')
FindInfo(f) == [path |-> f.path, size |-> f.size, mtime |-> f.mtime]

RECURSIVE MapWalkInfo(_)
MapWalkInfo(s) == IF s = <<>> THEN <<>> ELSE <<WalkInfo(Head(s))>> \o MapWalkInfo(Tail(s))

\* the files one os.walk iteration records in directory d: those not
\* excluded whose getsize did not fail (bad)
Recorded(tree, d, bad) ==
  Filter(FilesIn(tree, d), {f \in tree : ~should_skip(f.path) /\ f \notin bad})

RECURSIVE ConcatDirs(_, _, _)
ConcatDirs(tree, dirs, bad) ==
  IF dirs = <<>> THEN <<>>
  ELSE Recorded(tree, Head(dirs), bad) \o ConcatDirs(tree, Tail(dirs), bad)

\* _scan_single_dir(dir_path, max_depth): the files of the directories of the
\* subtree that are at most max_depth levels below dir_path
ScanSingleDir(tree, dir_path, depth, bad) ==
  LET visited == Filter(WalkSeq(tree, dir_path, depth),
                        {d \in DirsOf(tree) : /\ IsUnder(dir_path, d)
                                               /\ DepthBelow(dir_path, d) <= depth})
      found == ConcatDirs(tree, visited, bad)
  IN [dir_files |-> MapWalkInfo(found), dir_size |-> SumSizes(found)]

\* what `du -sb root` prints: the bytes of every file plus the apparent size
\* of every directory and of every symbolic link, one unit each here
DuOutput(tree) ==
  SumSet({f \in tree : ~f.link}) + Cardinality({f \in tree : f.link})
    + Cardinality(DirsOf(tree))

\* _update_progress(files, bytes, path)
UpdateProgress(stats, files, bytes, path) ==
  [scanned_files |-> stats.scanned_files + files,
   scanned_bytes |-> stats.scanned_bytes + bytes,
   current_path  |-> IF path # "" THEN path ELSE stats.current_path]

\* an entry whose age equals the TTL still counts as fresh
CacheFresh_Inclusive(age) == age <= CacheTTL

\* _cache_valid's comparison: cache_age < 600
CacheFresh(age) == age < CacheTTL

Methods == {"fastfind", "fastwalk", "walk", "du", "hybrid"}

\* the values of the constructor's scan_method argument: the default 'auto',
\* the names scan() tests for, and the docstring's other names 'find', 'fast'
MethodArgs == Methods \cup {"auto", "find", "fast"}

\* _determine_method(method)
determine_method(method, windows, find) ==
  IF method = "auto"
  THEN IF windows THEN "fastwalk" ELSE IF find THEN "fastfind" ELSE "walk"
  ELSE method

\* the if/elif chain of scan(): the first program point of the strategy
DispatchPc(method) ==
  CASE method = "fastfind" -> "find_start"
    [] method = "fastwalk" -> "fw_start"
    [] method = "walk"     -> "walk"
    [] method = "du"       -> "du"
    [] method = "hybrid"   -> "hybrid"
    [] OTHER               -> "fw_start"

(***************************************************************************)
(* State.                                                                  *)
(***************************************************************************)
VARIABLES
  \* the configuration of the instance, fixed by __init__
  method_arg, scan_method, has_find, is_windows, use_cache, max_depth,
  \* self.lock, the lock around scan_stats: "free" or "held"
  lock,
  \* the tree under root_path
  fs,
  \* how many scan() calls the behaviour makes and how many failures it injects
  max_runs, budget,
  \* the instance's accumulators
  skipped_paths,
  scan_stats, file_types, top_files, cleanable_files, history_data, stop_event,
  \* the cache file (exists, mtime, data) and the wall clock
  cache_file, now,
  \* the scan() call in progress: program point and locals of the strategy
  pc, idx, all_files, dir_sizes, batch_files, file_count, pending, dir_tree,
  \* what the last scan() call returned, or that it raised
  result, raised,
  \* the TerminalUI object of tui.py
  tui,
  \* run_scan_with_live_progress of main.py: the caller-side lock, the
  \* latest_stats dict, the program points of the polling loop and of the
  \* walk's callback protocol, and what the function returned
  live,
  \* observations about the run, read by the properties only
  obs

\* what __init__ sets and no method assigns afterwards (skipped_paths is
\* initialised to [] and never appended to)
cfgvars == <<method_arg, scan_method, has_find, is_windows, use_cache, max_depth, listing, fs,
             max_runs, budget, skipped_paths>>
accvars == <<scan_stats, file_types, top_files, cleanable_files, history_data>>
framevars == <<idx, all_files, dir_sizes, batch_files, file_count, pending, dir_tree>>
envvars == <<cache_file, now>>
appvars == <<tui, live>>
vars == <<cfgvars, appvars, lock, accvars, stop_event, envvars, pc, framevars, result, raised, obs>>

NoResult == [none |-> TRUE]
NoCache == [exists |-> FALSE, mtime |-> 0, data |-> NoResult]
Corrupt == [corrupt |-> TRUE]

StrategyPcs == {"find_start", "find_loop", "walk", "fw_start", "fw_pool", "fw_root",
                "du", "hybrid", "hybrid_merge", "in_callback", "find_blocked"}

\* a node of the dict tree the browser walks: path, name, size, children
Node(path, size, children) ==
  [path |-> path, name |-> Basename(path), size |-> size, children |-> children]

\* TerminalUI.__init__(data), shown on a terminal of the given height;
\* key is the last key _main_loop read
TerminalUI(data, height) ==
  [data |-> data, root_data |-> data, history |-> <<>>, selected_idx |-> 0,
   offset |-> 0, height |-> height, key |-> "none", running |-> TRUE]

\* no browser was started
TuiOff == [TerminalUI(Node(RootPath, 0, <<>>), MinHeight) EXCEPT !.running = FALSE]

\* run_scan_with_live_progress right after t.start(): latest_stats as
\* initialised, the caller-side lock free, the polling loop at its test
LiveStart ==
  [on |-> TRUE, wpc |-> "head", lock |-> "free",
   latest_stats |-> [scanned_files |-> 0, scanned_bytes |-> 0, current_path |-> RootPath],
   stats |-> [none |-> TRUE], ppc |-> "loop", out |-> [kind |-> "none"]]

\* scan() is called by somebody else than run_scan_with_live_progress
LiveOff == [LiveStart EXCEPT !.on = FALSE, !.ppc = "end"]

\* the fields of the instance as __init__ leaves them
InitObject ==
  /\ scan_stats = [scanned_files |-> 0, scanned_bytes |-> 0, current_path |-> RootPath]
  /\ file_types = EmptyFn
  /\ top_files = <<>>
  /\ cleanable_files = <<>>
  /\ history_data = <<>>
  /\ skipped_paths = <<>>
  /\ lock = "free"
  /\ pc = "idle"
  /\ idx = 1
  /\ all_files = <<>>
  /\ dir_sizes = <<>>
  /\ batch_files = <<>>
  /\ file_count = 0
  /\ pending = {}
  /\ dir_tree = LeafTree(0)
  /\ result = NoResult
  /\ raised = FALSE
  /\ obs = [runs |-> 0, faults |-> 0, dispatched |-> FALSE, hit |-> FALSE,
            cancel_at |-> "none", cut_short |-> FALSE, inserted |-> <<>>,
            check_age |-> -1, load_failed |-> FALSE,
            first_result |-> NoResult, written |-> NoResult,
            written_cut |-> FALSE, entered |-> "none", fallback |-> "none",
            cb_raised |-> FALSE, stat_failed |-> {},
            report_in |-> NoResult, sub_failed |-> {}, sub_done |-> {},
            cache_fault |-> "none", writer |-> <<>>, written_at |-> -1]

\* the instance as __init__ leaves it, no cache file yet
InitInstance ==
  /\ cache_file = NoCache
  /\ now = 0
  /\ stop_event = "none"
  /\ InitObject

\* one scan() call on a new instance, under every configuration
Init ==
  /\ method_arg \in MethodArgs
  /\ has_find \in BOOLEAN
  /\ is_windows \in BOOLEAN
  /\ is_windows => ~has_find
  /\ scan_method = determine_method(method_arg, is_windows, has_find)
  /\ use_cache \in BOOLEAN
  /\ max_depth \in {1, 2}
  /\ fs \in Trees
  \* the two orders differ only on a tree that holds both d1 and etc
  /\ listing \in {"name", "hash"}
  /\ listing = "hash" => fs = {fb, fc, fd}
  /\ max_runs = 1
  /\ budget = MaxFaults
  /\ InitInstance
  /\ tui = TuiOff
  /\ live = LiveOff

\* a sequence of scan() calls on one instance, on Linux with find and du
InitRuns ==
  /\ method_arg \in Methods
  /\ has_find = TRUE
  /\ is_windows = FALSE
  /\ scan_method = determine_method(method_arg, is_windows, has_find)
  /\ use_cache \in BOOLEAN
  /\ max_depth = 2
  /\ fs = {fa, fb, fc}
  /\ listing = "name"
  /\ max_runs = MaxScans
  /\ budget = MaxRunFaults
  /\ InitInstance
  /\ tui = TuiOff
  /\ live = LiveOff

CanFail == obs.faults < budget
Fault(o) == [o EXCEPT !.faults = @ + 1]

\* the call returns res (obs keeps the first call's result)
Returned(o, res) == IF o.runs = 1 THEN [o EXCEPT !.first_result = res] ELSE o

FreshFrame ==
  /\ idx' = 1
  /\ all_files' = <<>>
  /\ dir_sizes' = <<>>
  /\ batch_files' = <<>>
  /\ file_count' = 0
  /\ pending' = {}
  /\ dir_tree' = LeafTree(0)

(***************************************************************************)
(* scan(): entry and cache check.                                          *)
(***************************************************************************)
\* scan() is called: self.stop_event = stop_event or threading.Event()
ScanCall ==
  /\ pc \in {"idle", "done"}
  /\ obs.runs < max_runs
  /\ stop_event' = "clear"
  /\ pc' = "cache_check"
  /\ FreshFrame
  /\ result' = NoResult
  /\ raised' = FALSE
  /\ obs' = [obs EXCEPT !.runs = @ + 1, !.dispatched = FALSE, !.hit = FALSE,
                        !.cancel_at = "none", !.cut_short = FALSE,
                        !.inserted = <<>>, !.check_age = -1, !.load_failed = FALSE,
                        !.entered = "none", !.fallback = "none",
                        !.sub_failed = {}, !.sub_done = {},
                        !.cb_raised = FALSE, !.stat_failed = {},
                        !.cache_fault = "none"]
  /\ UNCHANGED <<cfgvars, appvars, lock, accvars, envvars>>

\* the caller sets the stop event while the call is in progress
Cancel ==
  /\ pc \notin {"idle", "done", "reported"}
  /\ stop_event = "clear"
  /\ stop_event' = "set"
  /\ obs' = [obs EXCEPT !.cancel_at = IF pc \in StrategyPcs \cup {"cache_check"}
                                       THEN "running" ELSE "returned"]
  /\ UNCHANGED <<cfgvars, appvars, lock, accvars, envvars, pc, framevars, result, raised>>

\* time passes between two calls (the clock is read for the age of the
\* cache entry and for the result's time stamp)
Tick ==
  /\ pc \in {"idle", "done"}
  /\ cache_file.exists
  /\ now + TickStep <= MaxTime
  /\ now' = now + TickStep
  /\ UNCHANGED <<cfgvars, appvars, lock, accvars, stop_event, cache_file, pc, framevars, result,
                 raised, obs>>

\* control reaches the if/elif chain and enters the strategy
Dispatch(o) ==
  /\ pc' = DispatchPc(scan_method)
  /\ obs' = [o EXCEPT !.dispatched = TRUE, !.entered = DispatchPc(scan_method)]
  /\ result' = result
  /\ raised' = raised
  /\ UNCHANGED <<cfgvars, appvars, lock, accvars, stop_event, envvars, framevars>>

\* use_cache is off, the file does not exist, or it is too old
CacheMiss ==
  /\ pc = "cache_check"
  /\ \/ ~use_cache /\ Dispatch(obs)
     \/ use_cache /\ ~cache_file.exists /\ Dispatch(obs)
     \/ /\ use_cache /\ cache_file.exists
        /\ ~CacheFresh(now - cache_file.mtime)
        /\ Dispatch([obs EXCEPT !.check_age = now - cache_file.mtime])

\* cache_file.stat() raises (the file vanished after exists(), or no
\* permission): _cache_valid is called outside scan()'s try block
CacheStatRaises ==
  /\ pc = "cache_check"
  /\ use_cache /\ cache_file.exists
  /\ CanFail
  /\ raised' = TRUE
  /\ result' = NoResult
  /\ pc' = "done"
  /\ obs' = Returned([Fault(obs) EXCEPT !.cache_fault = "stat"], NoResult)
  /\ UNCHANGED <<cfgvars, appvars, lock, accvars, stop_event, envvars, framevars>>

\* the entry is fresh but _load_cache returns None: unreadable or corrupt
CacheLoadFails ==
  /\ pc = "cache_check"
  /\ use_cache /\ cache_file.exists
  /\ CacheFresh(now - cache_file.mtime)
  /\ \/ /\ cache_file.data = Corrupt
        /\ Dispatch([obs EXCEPT !.check_age = now - cache_file.mtime,
                                !.load_failed = TRUE, !.cache_fault = "load"])
     \/ /\ cache_file.data # Corrupt
        /\ CanFail
        /\ Dispatch([Fault(obs) EXCEPT !.check_age = now - cache_file.mtime,
                                       !.load_failed = TRUE,
                                       !.cache_fault = "load"])

\* the counters are cleared before the cache is looked at
CacheHit_Resets ==
  /\ pc = "cache_check"
  /\ use_cache /\ cache_file.exists
  /\ CacheFresh(now - cache_file.mtime)
  /\ cache_file.data # Corrupt
  /\ result' = cache_file.data
  /\ raised' = FALSE
  /\ pc' = "done"
  /\ scan_stats' = [scan_stats EXCEPT !.scanned_files = 0, !.scanned_bytes = 0]
  /\ obs' = Returned([obs EXCEPT !.hit = TRUE,
                                 !.check_age = now - cache_file.mtime],
                     cache_file.data)
  /\ UNCHANGED <<cfgvars, appvars, lock, file_types, top_files, cleanable_files, history_data,
                 stop_event, envvars, framevars>>

\* the entry is fresh and loads: scan() returns it
CacheHit ==
  /\ pc = "cache_check"
  /\ use_cache /\ cache_file.exists
  /\ CacheFresh(now - cache_file.mtime)
  /\ cache_file.data # Corrupt
  /\ result' = cache_file.data
  /\ raised' = FALSE
  /\ pc' = "done"
  /\ obs' = Returned([obs EXCEPT !.hit = TRUE,
                                 !.check_age = now - cache_file.mtime],
                     cache_file.data)
  /\ UNCHANGED <<cfgvars, appvars, lock, accvars, stop_event, envvars, framevars>>

(***************************************************************************)
(* The strategies.                                                         *)
(***************************************************************************)
RECURSIVE TopEntries(_)
TopEntries(files) ==
  IF files = <<>> THEN <<>> ELSE <<<<Head(files).size, Head(files).path>>>> \o TopEntries(Tail(files))

\* _process_batch_fast(files, ds) on the instance's accumulators
Aggregate(files, ds) ==
  ProcessBatch([ft |-> file_types, top |-> top_files, cl |-> cleanable_files, ds |-> ds],
               files)

\* the tail of a strategy: _process_batch_fast(files, dir_sizes), then
\* return _build_tree_from_dirs(dir_sizes) to scan()
Finish(files, ds, o) ==
  LET acc == Aggregate(files, ds)
  IN /\ file_types' = acc.ft
     /\ top_files' = acc.top
     /\ cleanable_files' = acc.cl
     /\ dir_sizes' = acc.ds
     /\ dir_tree' = BuildTreeFromDirs(acc.ds)
     /\ pc' = "stop_check"
     /\ obs' = [o EXCEPT !.inserted = @ \o TopEntries(files)]

\* `with self.lock: on_progress(dict(self.scan_stats))` with a callback
\* that itself takes self.lock (it calls _update_progress, say): the lock is
\* a threading.Lock, not reentrant, so the callback waits for it forever
CallbackBlocks ==
  /\ pc' = "in_callback"
  /\ lock' = "held"
  /\ UNCHANGED <<cfgvars, appvars, file_types, top_files, cleanable_files, history_data,
                 stop_event, envvars, framevars, result, raised, obs>>

\* return self._scan_walk(on_progress): a new frame, the same accumulators
EnterWalk(o, why) ==
  /\ pc' = "walk"
  /\ idx' = 1
  /\ all_files' = <<>>
  /\ dir_sizes' = <<>>
  /\ obs' = [o EXCEPT !.fallback = why]
  /\ UNCHANGED <<cfgvars, appvars, lock, accvars, stop_event, envvars, batch_files, file_count,
                 pending, dir_tree, result, raised>>

\* ---- _scan_walk ----
\* the walk loop's updates for the files of directory d that were recorded
RECURSIVE WalkDirSizes(_, _, _)
WalkDirSizes(ds, d, files) ==
  IF files = <<>> THEN ds
  ELSE WalkDirSizes(OdAdd(OdAdd(ds, d, Head(files).size), RootPath, Head(files).size),
                    d, Tail(files))

RECURSIVE WalkProgress(_, _)
WalkProgress(stats, files) ==
  IF files = <<>> THEN stats
  ELSE WalkProgress(UpdateProgress(stats, 1, Head(files).size, Head(files).path),
                    Tail(files))

\* a getsize failure is caught by the except around the loop, not by one
\* around the file: the walk ends at the first file that cannot be stat-ed
WalkVisit_AbortsOnError ==
  /\ pc = "walk"
  /\ idx <= Len(WalkSeq(fs, RootPath, max_depth))
  /\ stop_event = "clear"
  /\ LET d == WalkSeq(fs, RootPath, max_depth)[idx]
         here == UpdateProgress(scan_stats, 0, 0, d)
     IN \/ /\ CanFail
           /\ scan_stats' = here
           /\ Finish(all_files, dir_sizes,
                     [Fault(obs) EXCEPT !.cut_short = TRUE, !.cb_raised = TRUE])
           /\ UNCHANGED <<cfgvars, appvars, lock, history_data, stop_event, envvars, idx,
                          all_files, batch_files, file_count, pending, result, raised>>
        \/ /\ scan_stats' = here
           /\ CallbackBlocks
        \/ /\ DepthBelow(RootPath, d) > max_depth
           /\ scan_stats' = here
           /\ idx' = idx + 1
           /\ UNCHANGED <<cfgvars, appvars, lock, file_types, top_files, cleanable_files,
                          history_data, stop_event, envvars, pc, all_files, dir_sizes,
                          batch_files, file_count, pending, dir_tree, result, raised,
                          obs>>
        \/ /\ DepthBelow(RootPath, d) <= max_depth
           /\ LET got == Recorded(fs, d, {})
              IN /\ all_files' = all_files \o MapWalkInfo(got)
                 /\ dir_sizes' = WalkDirSizes(dir_sizes, d, got)
                 /\ scan_stats' = WalkProgress(here, got)
           /\ idx' = idx + 1
           /\ UNCHANGED <<cfgvars, appvars, lock, file_types, top_files, cleanable_files,
                          history_data, stop_event, envvars, pc, batch_files,
                          file_count, pending, dir_tree, result, raised, obs>>
        \/ \* the first file of d cannot be stat-ed: the walk ends here
           /\ DepthBelow(RootPath, d) <= max_depth
           /\ FilesIn(fs, d) # <<>>
           /\ CanFail
           /\ scan_stats' = here
           /\ Finish(all_files, dir_sizes,
                     [Fault(obs) EXCEPT !.cut_short = TRUE,
                                        !.stat_failed = @ \cup {FilesIn(fs, d)[1].path}])
           /\ UNCHANGED <<cfgvars, appvars, lock, history_data, stop_event, envvars, idx,
                          all_files, batch_files, file_count, pending, result, raised>>

\* one iteration of the os.walk loop with the stop flag clear
WalkVisit ==
  /\ pc = "walk"
  /\ idx <= Len(WalkSeq(fs, RootPath, max_depth))
  /\ stop_event = "clear"
  /\ LET d == WalkSeq(fs, RootPath, max_depth)[idx]
         here == UpdateProgress(scan_stats, 0, 0, d)
     IN \/ \* the callback raises: caught by the except around the loop,
           \* the walk ends here and goes on to its tail
           /\ CanFail
           /\ scan_stats' = here
           /\ Finish(all_files, dir_sizes,
                     [Fault(obs) EXCEPT !.cut_short = TRUE, !.cb_raised = TRUE])
           /\ UNCHANGED <<cfgvars, appvars, lock, history_data, stop_event, envvars, idx, all_files,
                          batch_files, file_count, pending, result, raised>>
        \/ \* the callback needs the lock it is called under
           /\ scan_stats' = here
           /\ CallbackBlocks
        \/ \* deeper than max_depth: del dirs[:]; continue
           /\ DepthBelow(RootPath, d) > max_depth
           /\ scan_stats' = here
           /\ idx' = idx + 1
           /\ UNCHANGED <<cfgvars, appvars, lock, file_types, top_files, cleanable_files, history_data,
                          stop_event, envvars, pc, all_files, dir_sizes, batch_files,
                          file_count, pending, dir_tree, result, raised, obs>>
        \/ \* the files of d; getsize fails (OSError) on those in bad
           /\ DepthBelow(RootPath, d) <= max_depth
           /\ \E bad \in SUBSET SeqToSet(FilesIn(fs, d)) :
                /\ obs.faults + Cardinality(bad) <= budget
                /\ LET got == Recorded(fs, d, bad)
                   IN /\ all_files' = all_files \o MapWalkInfo(got)
                      /\ dir_sizes' = WalkDirSizes(dir_sizes, d, got)
                      /\ scan_stats' = WalkProgress(here, got)
                /\ obs' = [obs EXCEPT !.faults = @ + Cardinality(bad),
                                      !.stat_failed = @ \cup {f.path : f \in bad}]
           /\ idx' = idx + 1
           /\ UNCHANGED <<cfgvars, appvars, lock, file_types, top_files, cleanable_files, history_data,
                          stop_event, envvars, pc, batch_files, file_count, pending,
                          dir_tree, result, raised>>

\* the loop ends (exhausted, or the stop flag is seen: break) and the tail runs
WalkEnd ==
  /\ pc = "walk"
  /\ idx > Len(WalkSeq(fs, RootPath, max_depth)) \/ stop_event = "set"
  /\ Finish(all_files, dir_sizes, obs)
  /\ UNCHANGED <<cfgvars, appvars, lock, scan_stats, history_data, stop_event, envvars, idx, all_files,
                 batch_files, file_count, pending, result, raised>>

\* ---- _scan_fast_find ----
\* a missing tool or a failing Popen is reported instead of falling back
FastFindStart_NoFallback ==
  /\ pc = "find_start"
  /\ \/ /\ ~has_find \/ CanFail
        /\ result' = CreateErrorResult(scan_stats)
        /\ pc' = "done"
        /\ obs' = [(IF has_find THEN Fault(obs) ELSE obs) EXCEPT
                     !.fallback = IF has_find THEN "popen" ELSE "no_tool"]
        /\ UNCHANGED <<cfgvars, appvars, lock, accvars, stop_event, envvars, framevars, raised>>
     \/ /\ has_find
        /\ pc' = "find_loop"
        /\ UNCHANGED <<cfgvars, appvars, lock, accvars, stop_event, envvars, framevars, result,
                       raised, obs>>

\* no find tool, or Popen raises: fall back to _scan_walk; else start reading
FastFindStart ==
  /\ pc = "find_start"
  /\ \/ ~has_find /\ EnterWalk(obs, "no_tool")
     \/ has_find /\ CanFail /\ EnterWalk(Fault(obs), "popen")
     \/ /\ has_find
        /\ pc' = "find_loop"
        /\ UNCHANGED <<cfgvars, appvars, lock, accvars, stop_event, envvars, framevars, result,
                       raised, obs>>

\* one record of the stream with the stop flag clear
FindLine ==
  /\ pc = "find_loop"
  /\ idx <= Len(FindLines(fs))
  /\ stop_event = "clear"
  /\ LET f == FindLines(fs)[idx]
         batch == Append(batch_files, FindInfo(f))
         full == (file_count + 1) % batch_size = 0
         counted == UpdateProgress(scan_stats, batch_size, SumSizes(batch), f.path)
         acc == Aggregate(batch, dir_sizes)
     IN \/ \* an excluded path: continue
           /\ should_skip(f.path)
           /\ idx' = idx + 1
           /\ UNCHANGED <<cfgvars, appvars, lock, accvars, stop_event, envvars, pc, all_files,
                          dir_sizes, batch_files, file_count, pending, dir_tree,
                          result, raised, obs>>
        \/ \* appended, the batch is not full yet
           /\ ~should_skip(f.path) /\ ~full
           /\ batch_files' = batch
           /\ file_count' = file_count + 1
           /\ idx' = idx + 1
           /\ UNCHANGED <<cfgvars, appvars, lock, accvars, stop_event, envvars, pc, all_files,
                          dir_sizes, pending, dir_tree, result, raised, obs>>
        \/ \* the batch is full: progress, callback, _process_batch_fast
           /\ ~should_skip(f.path) /\ full
           /\ scan_stats' = counted
           /\ file_types' = acc.ft
           /\ top_files' = acc.top
           /\ cleanable_files' = acc.cl
           /\ dir_sizes' = acc.ds
           /\ batch_files' = <<>>
           /\ file_count' = file_count + 1
           /\ idx' = idx + 1
           /\ obs' = [obs EXCEPT !.inserted = @ \o TopEntries(batch)]
           /\ UNCHANGED <<cfgvars, appvars, lock, history_data, stop_event, envvars, pc, all_files,
                          pending, dir_tree, result, raised>>
        \/ \* the batch is full and the callback needs the lock it is called under
           /\ ~should_skip(f.path) /\ full
           /\ scan_stats' = counted
           /\ CallbackBlocks
        \/ \* the batch is full and the callback raises after the progress
           \* update: the outer except falls back to _scan_walk
           /\ ~should_skip(f.path) /\ full
           /\ CanFail
           /\ scan_stats' = counted
           /\ pc' = "walk"
           /\ idx' = 1
           /\ all_files' = <<>>
           /\ dir_sizes' = <<>>
           /\ batch_files' = batch
           /\ file_count' = file_count + 1
           /\ obs' = [Fault(obs) EXCEPT !.cb_raised = TRUE, !.fallback = "callback"]
           /\ UNCHANGED <<cfgvars, appvars, lock, file_types, top_files, cleanable_files, history_data,
                          stop_event, envvars, pending, dir_tree, result, raised>>

\* reading the stream raises (an undecodable name): fall back to _scan_walk
FindStreamFails ==
  /\ pc = "find_loop"
  /\ idx <= Len(FindLines(fs))
  /\ stop_event = "clear"
  /\ CanFail
  /\ EnterWalk(Fault(obs), "stream")

\* the listing process neither writes another line nor exits (a directory on
\* an unresponsive mount): `for line in process.stdout` waits in the read, and
\* after a break process.wait() waits for the exit; the stop flag is looked
\* at only when a line arrives
FindStalls ==
  /\ pc = "find_loop"
  /\ CanFail
  /\ pc' = "find_blocked"
  /\ obs' = Fault(obs)
  /\ UNCHANGED <<cfgvars, appvars, lock, accvars, stop_event, envvars, framevars, result,
                 raised>>

\* the stream ends, or the stop flag is seen (terminate, break): the rest of
\* the batch is processed without a progress update, then the tree is built
FindEnd ==
  /\ pc = "find_loop"
  /\ idx > Len(FindLines(fs)) \/ stop_event = "set"
  /\ Finish(batch_files, dir_sizes, obs)
  /\ batch_files' = batch_files
  /\ UNCHANGED <<cfgvars, appvars, lock, scan_stats, history_data, stop_event, envvars, idx, all_files,
                 file_count, pending, result, raised>>

\* ---- _scan_fast_walk ----
\* Windows: plain walk.  Otherwise list the first-level directories and open
\* the pool; a failing scandir and a pool of min(...) = 0 workers raise, and
\* the except falls back to _scan_walk
FastWalkStart ==
  /\ pc = "fw_start"
  /\ LET dirs == FirstLevelDirs(fs)
         max_workers == Min(Min(NumWorkers, Len(dirs)), PoolCap)
     IN \/ is_windows /\ EnterWalk(obs, "windows")
        \/ ~is_windows /\ CanFail /\ EnterWalk(Fault(obs), "setup")
        \/ ~is_windows /\ max_workers < 1 /\ EnterWalk(obs, "pool")
        \/ /\ ~is_windows /\ max_workers >= 1
           /\ pending' = SeqToSet(Take(dirs, SubmitCap))
           /\ pc' = "fw_pool"
           /\ UNCHANGED <<cfgvars, appvars, lock, accvars, stop_event, envvars, idx, all_files,
                          dir_sizes, batch_files, file_count, dir_tree, result,
                          raised, obs>>

\* executor.submit(self._scan_single_dir, ...) pickles the bound method and
\* with it self, which holds a threading.Lock (self.lock): the work item
\* cannot be pickled ("cannot pickle '_thread.lock' object") and the future
\* holds that TypeError instead of a result
SelfPicklable == FALSE

\* the variant of the pool loop without the try around future.result(): the
\* exception of a sub-task reaches the outer except, which falls back to
\* _scan_walk
FastWalkCompleted_FailureAborts ==
  /\ pc = "fw_pool"
  /\ stop_event = "clear"
  /\ \E dir_path \in pending :
       /\ pending' = pending \ {dir_path}
       /\ pc' = "walk"
       /\ idx' = 1
       /\ all_files' = <<>>
       /\ dir_sizes' = <<>>
       /\ obs' = [obs EXCEPT !.cut_short = TRUE, !.fallback = "subtask",
                             !.sub_failed = @ \cup {dir_path}]
  /\ UNCHANGED <<cfgvars, appvars, lock, accvars, stop_event, envvars, batch_files,
                 file_count, dir_tree, result, raised>>

\* as_completed yields the future of dir_path with the stop flag clear
FastWalkCompleted ==
  /\ pc = "fw_pool"
  /\ stop_event = "clear"
  /\ \E dir_path \in pending :
       /\ pending' = pending \ {dir_path}
       /\ \/ \* future.result() raises: the except of the loop drops the subtree
             /\ ~SelfPicklable \/ CanFail
             /\ obs' = [(IF SelfPicklable THEN Fault(obs) ELSE obs) EXCEPT
                          !.cut_short = TRUE, !.sub_failed = @ \cup {dir_path}]
             /\ UNCHANGED <<scan_stats, all_files, dir_sizes>>
          \/ \* the sub-task returned; getsize failed on the files in bad.
             \* The callback, when it raises, does so after the updates
             /\ SelfPicklable
             /\ \E bad \in SUBSET {f \in fs : IsUnder(dir_path, f.dir)},
                   cb_raises \in BOOLEAN :
                  LET n == Cardinality(bad) + (IF cb_raises THEN 1 ELSE 0)
                      r == ScanSingleDir(fs, dir_path, max_depth - 1, bad)
                  IN /\ obs.faults + n <= budget
                     /\ all_files' = all_files \o r.dir_files
                     /\ dir_sizes' = OdSet(dir_sizes, dir_path, r.dir_size)
                     /\ scan_stats' = UpdateProgress(scan_stats, Len(r.dir_files),
                                                     r.dir_size, dir_path)
                     /\ obs' = [obs EXCEPT !.faults = @ + n,
                                           !.cb_raised = @ \/ cb_raises,
                                           !.stat_failed = @ \cup {f.path : f \in bad},
                                           !.sub_done = @ \cup {dir_path}]
  /\ UNCHANGED <<cfgvars, appvars, lock, file_types, top_files, cleanable_files, history_data,
                 stop_event, envvars, pc, idx, batch_files, file_count, dir_tree,
                 result, raised>>

\* every future was consumed, or the stop flag is seen (shutdown, break)
FastWalkPoolEnd ==
  /\ pc = "fw_pool"
  /\ pending = {} \/ stop_event = "set"
  /\ pc' = "fw_root"
  /\ idx' = 1
  /\ UNCHANGED <<cfgvars, appvars, lock, accvars, stop_event, envvars, all_files, dir_sizes,
                 batch_files, file_count, pending, dir_tree, result, raised, obs>>

\* one file entry of the root directory with the stop flag clear
FastWalkRootFile ==
  /\ pc = "fw_root"
  /\ idx <= Len(RootFiles(fs))
  /\ stop_event = "clear"
  /\ LET f == RootFiles(fs)[idx]
     IN \/ \* excluded, or entry.stat() raises (bare except: pass)
           /\ should_skip(f.path) \/ CanFail
           /\ obs' = IF should_skip(f.path) THEN obs
                     ELSE [Fault(obs) EXCEPT !.stat_failed = @ \cup {f.path}]
           /\ UNCHANGED <<scan_stats, all_files, dir_sizes>>
        \/ /\ ~should_skip(f.path)
           /\ all_files' = Append(all_files, WalkInfo(f))
           /\ dir_sizes' = OdAdd(dir_sizes, RootPath, f.size)
           /\ scan_stats' = UpdateProgress(scan_stats, 1, f.size, f.path)
           /\ obs' = obs
  /\ idx' = idx + 1
  /\ UNCHANGED <<cfgvars, appvars, lock, file_types, top_files, cleanable_files, history_data,
                 stop_event, envvars, pc, batch_files, file_count, pending, dir_tree,
                 result, raised>>

\* the root loop ends (exhausted, or break on the stop flag) and the tail runs
FastWalkEnd ==
  /\ pc = "fw_root"
  /\ idx > Len(RootFiles(fs)) \/ stop_event = "set"
  /\ Finish(all_files, dir_sizes, obs)
  /\ UNCHANGED <<cfgvars, appvars, lock, scan_stats, history_data, stop_event, envvars, idx, all_files,
                 batch_files, file_count, pending, result, raised>>

\* ---- _scan_du ----
\* total_size of _scan_du: the number du printed, 0 when du failed
DuTree(ok) == LeafTree(IF ok THEN DuOutput(fs) ELSE 0)

ScanDu ==
  /\ pc = "du"
  /\ \E ok \in BOOLEAN :
       /\ ~ok => CanFail
       /\ dir_tree' = DuTree(ok)
       /\ obs' = IF ok THEN obs ELSE Fault(obs)
  /\ pc' = "stop_check"
  /\ UNCHANGED <<cfgvars, appvars, lock, accvars, stop_event, envvars, idx, all_files, dir_sizes,
                 batch_files, file_count, pending, result, raised>>

\* ---- _scan_hybrid ----
\* backup_analyzer._scan_walk on a new DiskAnalyzer, on which scan() was never
\* called: its stop_event is still None, so the first iteration of the walk
\* loop raises AttributeError on stop_event.is_set(), the except around the
\* loop catches it, and the tail runs on no files and an empty dir_sizes
BackupWalk ==
  [tree |-> BuildTreeFromDirs(<<>>), scanned_files |-> 0, scanned_bytes |-> 0]

ScanHybrid ==
  /\ pc = "hybrid"
  /\ \E ok \in BOOLEAN :
       /\ ~ok => CanFail
       /\ LET base_tree == DuTree(ok)
              detailed == BackupWalk
          IN dir_tree' = [base_tree EXCEPT
                            !.size = Max(base_tree.size, detailed.tree.size),
                            !.children = detailed.tree.children]
       /\ obs' = IF ok THEN obs ELSE Fault(obs)
  /\ pc' = "hybrid_merge"
  /\ UNCHANGED <<cfgvars, appvars, lock, accvars, stop_event, envvars, idx, all_files,
                 dir_sizes, batch_files, file_count, pending, result, raised>>

\* the merge of the statistics: self.scan_stats[...] += ... on the dict
\* itself, not through _update_progress, so self.lock is not taken
HybridMerge ==
  /\ pc = "hybrid_merge"
  /\ scan_stats' = [scan_stats EXCEPT
                      !.scanned_files = @ + BackupWalk.scanned_files,
                      !.scanned_bytes = @ + BackupWalk.scanned_bytes]
  /\ pc' = "stop_check"
  /\ UNCHANGED <<cfgvars, appvars, lock, file_types, top_files, cleanable_files, history_data,
                 stop_event, envvars, framevars, result, raised, obs>>

(***************************************************************************)
(* scan(): after the strategy returned.                                    *)
(***************************************************************************)
\* the stop flag is honoured only after a strategy that polls it
StopCheck_PollingOnly ==
  /\ pc = "stop_check"
  /\ IF stop_event = "set" /\ scan_method \notin {"du", "hybrid"}
     THEN LET res == CreatePartialResult(file_types, top_files, cleanable_files,
                                         scan_stats)
          IN /\ result' = res
             /\ pc' = "done"
             /\ obs' = Returned(obs, res)
     ELSE /\ pc' = "post"
          /\ UNCHANGED <<result, obs>>
  /\ UNCHANGED <<cfgvars, appvars, lock, accvars, stop_event, envvars, framevars, raised>>

\* if self.stop_event.is_set(): return self._create_partial_result()
StopCheck ==
  /\ pc = "stop_check"
  /\ IF stop_event = "set"
     THEN LET res == CreatePartialResult(file_types, top_files, cleanable_files,
                                         scan_stats)
          IN /\ result' = res
             /\ pc' = "done"
             /\ obs' = Returned(obs, res)
     ELSE /\ pc' = "post"
          /\ UNCHANGED <<result, obs>>
  /\ UNCHANGED <<cfgvars, appvars, lock, accvars, stop_event, envvars, framevars, raised>>

\* _save_cache(data): the dump succeeds, or open() fails and the file is
\* left alone, or the dump fails after open() truncated the file
SaveCache(data, how) ==
  CASE how = "ok"      -> [exists |-> TRUE, mtime |-> now, data |-> data]
    [] how = "partial" -> [exists |-> TRUE, mtime |-> now, data |-> Corrupt]
    [] OTHER           -> cache_file

\* _post_process(), _build_result(dir_tree), _save_cache(result), return
PostProcess ==
  /\ pc = "post"
  /\ LET top == SortedDesc(top_files)
         cl == Take(cleanable_files, CleanableCap)
         hist == MockHistory(scan_stats.scanned_bytes)
         res == BuildResult(dir_tree, file_types, top, cl, hist, scan_stats, now)
     IN /\ top_files' = top
        /\ cleanable_files' = cl
        /\ history_data' = hist
        /\ result' = res
        /\ \E how \in {"ok", "partial", "unopened"} :
             /\ how # "ok" => use_cache /\ CanFail
             /\ cache_file' = IF use_cache THEN SaveCache(res, how) ELSE cache_file
             /\ obs' = Returned([(IF how = "ok" THEN obs ELSE Fault(obs)) EXCEPT
                                   !.written = IF use_cache /\ how = "ok"
                                               THEN res ELSE @,
                                   !.written_cut = IF use_cache /\ how # "unopened"
                                                   THEN obs.cut_short ELSE @,
                                   !.cache_fault = IF how = "ok" THEN @ ELSE "write",
                                   !.writer = IF use_cache /\ how = "ok"
                                              THEN <<scan_method, max_depth>> ELSE @,
                                   !.written_at = IF use_cache /\ how = "ok"
                                                  THEN now ELSE @],
                                res)
  /\ pc' = "done"
  /\ UNCHANGED <<cfgvars, appvars, lock, scan_stats, file_types, stop_event, now, framevars, raised>>

\* an exception nothing anticipated is raised while the result is assembled:
\* the except of scan() returns _create_error_result
PostFails ==
  /\ pc = "post"
  /\ CanFail
  /\ top_files' = SortedDesc(top_files)
  /\ cleanable_files' = Take(cleanable_files, CleanableCap)
  /\ history_data' = MockHistory(scan_stats.scanned_bytes)
  /\ result' = CreateErrorResult(scan_stats)
  /\ pc' = "done"
  /\ obs' = Returned(Fault(obs), CreateErrorResult(scan_stats))
  /\ UNCHANGED <<cfgvars, appvars, lock, scan_stats, file_types, stop_event, envvars, framevars,
                 raised>>

(***************************************************************************)
(* The HTML report (reporter.py).                                          *)
(***************************************************************************)
\* _coerce_disk_usage_percent(self.data.get('disk_usage', 0)): float() of a number
coerce_disk_usage_percent(data) ==
  IF "disk_usage" \in DOMAIN data THEN data.disk_usage ELSE 0

\* _coerce_file_types(self.data.get('file_types', {})): a dict is returned as it is
coerce_file_types(data) ==
  IF "file_types" \in DOMAIN data THEN data.file_types ELSE EmptyFn

\* _coerce_history(self.data.get('history_data', [])): a new list with the
\* same entries, size and usage as float() of the numbers they were
coerce_history(data) ==
  IF "history_data" \in DOMAIN data
  THEN [i \in 1..Len(data.history_data) |->
          <<data.history_data[i][1], data.history_data[i][2]>>]
  ELSE <<>>

\* _coerce_duplicates(self.data.get('duplicate_files', [])): the list of the
\* groups of a dict that hold more than one file (a dict and a list with no
\* entries are the same empty function here)
coerce_duplicates(data) ==
  IF "duplicate_files" \in DOMAIN data
  THEN LET d == data.duplicate_files
           big == {h \in DOMAIN d : Len(d[h]) > 1}
       IN IF big = {} THEN <<>> ELSE [i \in 1..1 |-> d[CHOOSE h \in big : TRUE]]
  ELSE <<>>

\* EnhancedHTMLReporter.__init__(scan_data): self.data is scan_data itself,
\* and four of its keys are assigned; the value is the caller's dict afterwards
EnhancedHTMLReporter(scan_data) ==
  LET keys == DOMAIN scan_data \cup {"disk_usage_percent", "file_types",
                                     "history_data", "duplicate_files"}
  IN [k \in keys |->
        CASE k = "disk_usage_percent" -> coerce_disk_usage_percent(scan_data)
          [] k = "file_types"         -> coerce_file_types(scan_data)
          [] k = "history_data"       -> coerce_history(scan_data)
          [] k = "duplicate_files"    -> coerce_duplicates(scan_data)
          [] OTHER                    -> scan_data[k]]

\* main.py hands the dict scan() returned to the reporter and calls generate(),
\* which only reads self.data
Report ==
  /\ pc = "done"
  /\ ~raised
  /\ result' = EnhancedHTMLReporter(result)
  /\ pc' = "reported"
  /\ obs' = [obs EXCEPT !.report_in = result]
  /\ UNCHANGED <<cfgvars, appvars, lock, accvars, stop_event, envvars, framevars, raised>>

\* the steps of a strategy and of what follows it in scan()
Run ==
  \/ WalkVisit
  \/ WalkEnd
  \/ FastFindStart
  \/ FindLine
  \/ FindStreamFails
  \/ FindStalls
  \/ FindEnd
  \/ FastWalkStart
  \/ FastWalkCompleted
  \/ FastWalkPoolEnd
  \/ FastWalkRootFile
  \/ FastWalkEnd
  \/ ScanDu
  \/ ScanHybrid
  \/ HybridMerge
  \/ StopCheck
  \/ PostProcess
  \/ PostFails

Next ==
  \/ ScanCall
  \/ Cancel
  \/ CacheMiss
  \/ Run
  \/ Report

Spec == Init /\ [][Next]_vars

NextRuns ==
  \/ ScanCall
  \/ Cancel
  \/ Tick
  \/ CacheMiss
  \/ CacheStatRaises
  \/ CacheLoadFails
  \/ CacheHit
  \/ Run

SpecRuns == InitRuns /\ [][NextRuns]_vars

\* hashlib.md5(s.encode()).hexdigest(): one digest per string
md5(s) == <<"md5", s>>

\* the name of the cache file takes the configuration in
cache_key_PerConfiguration(root_path, method, depth) == <<md5(root_path), method, depth>>

\* the name of the cache file of an analyzer: scan_<cache_key>.pkl
cache_key(root_path, method, depth) == md5(root_path)

\* DiskAnalyzer(root, max_depth, scan_method, ...): another analyzer for the
\* same root is constructed after a call has returned; it sees the file of the
\* earlier one if and only if both compute the same file name
NewAnalyzer ==
  /\ pc = "done"
  /\ obs.runs < max_runs
  /\ \E m \in Methods, d \in {1, 2} :
       /\ method_arg' = m
       /\ scan_method' = determine_method(m, is_windows, has_find)
       /\ max_depth' = d
       /\ cache_file' = IF cache_key(RootPath, scan_method', d)
                           = cache_key(RootPath, scan_method, max_depth)
                        THEN cache_file ELSE NoCache
  /\ scan_stats' = [scanned_files |-> 0, scanned_bytes |-> 0, current_path |-> RootPath]
  /\ file_types' = EmptyFn
  /\ top_files' = <<>>
  /\ cleanable_files' = <<>>
  /\ history_data' = <<>>
  /\ skipped_paths' = <<>>
  /\ stop_event' = "none"
  /\ lock' = "free"
  /\ pc' = "idle"
  /\ FreshFrame
  /\ result' = NoResult
  /\ raised' = FALSE
  \* the scenario ends with one call of the new analyzer
  /\ max_runs' = obs.runs + 1
  /\ UNCHANGED <<has_find, is_windows, use_cache, listing, fs, budget, appvars, now, obs>>

\* scan() calls of several analyzers for one root, one after another
NextShared ==
  \/ NextRuns
  \/ NewAnalyzer

\* the first analyzer has caching enabled
InitShared == InitRuns /\ use_cache

SpecShared == InitShared /\ [][NextShared]_vars

(***************************************************************************)
(* The terminal browser (tui.py).                                          *)
(***************************************************************************)
\* prepare_tui_data(tree_data): the root and the children of the scan's dir_tree
prepare_tui_data(tree_data) ==
  [path |-> tree_data.path, size |-> tree_data.total_size,
   children |-> tree_data.dir_tree.children]

\* a tree as the analyzer builds it (every child has 'children': []) and two
\* nested trees, which TerminalUI accepts as well
TuiData ==
  { prepare_tui_data([path |-> RootPath, total_size |-> 14,
       dir_tree |-> [children |-> <<Node("/r/d1", 2, <<>>), Node("/r/etc", 2, <<>>)>>]]),
    Node("/t", 9,
      << Node("/t/a", 5, << Node("/t/a/x", 3, << Node("/t/a/x/p", 2, <<>>),
                                                 Node("/t/a/x/q", 1, <<>>) >>),
                            Node("/t/a/y", 2, <<>>) >>),
         Node("/t/b", 3, <<>>),
         Node("/t/c", 1, << Node("/t/c/z", 1, <<>>) >>) >>),
    Node("/u", 6,
      << Node("/u/e", 1, <<>>),
         Node("/u/f", 2, <<>>),
         Node("/u/g", 3, << Node("/u/g/h", 1, <<>>),
                            Node("/u/g/i", 1, <<>>),
                            Node("/u/g/j", 1, << Node("/u/g/j/k", 1, <<>>) >>) >>) >>) }

\* max_display = height - 4
max_display(t) == t.height - TitleRows

\* KEY_UP
key_up(t) ==
  IF t.selected_idx > 0
  THEN [t EXCEPT !.selected_idx = @ - 1,
                 !.offset = IF t.selected_idx - 1 < t.offset THEN @ - 1 ELSE @]
  ELSE t

\* KEY_DOWN
key_down(t) ==
  IF t.selected_idx < Len(t.data.children) - 1
  THEN [t EXCEPT !.selected_idx = @ + 1,
                 !.offset = IF t.selected_idx + 1 >= t.offset + max_display(t)
                            THEN @ + 1 ELSE @]
  ELSE t

\* Enter has a directory with children under the cursor
CanEnter(t) ==
  /\ t.data.children # <<>>
  /\ t.data.children[t.selected_idx + 1].children # <<>>

\* the variant of key_enter that saves the cursor after resetting it
key_enter_SavesAfterReset(t) ==
  IF CanEnter(t)
  THEN [t EXCEPT !.history = Append(@, <<t.data, 0, 0>>),
                 !.data = t.data.children[t.selected_idx + 1],
                 !.selected_idx = 0,
                 !.offset = 0]
  ELSE t

\* KEY_ENTER, 10, 13
key_enter(t) ==
  IF CanEnter(t)
  THEN [t EXCEPT !.history = Append(@, <<t.data, t.selected_idx, t.offset>>),
                 !.data = t.data.children[t.selected_idx + 1],
                 !.selected_idx = 0,
                 !.offset = 0]
  ELSE t

\* KEY_BACKSPACE, 127, 'b'
key_back(t) ==
  IF t.history # <<>>
  THEN LET prev == t.history[Len(t.history)]
       IN [t EXCEPT !.history = SubSeq(@, 1, Len(@) - 1),
                    !.data = prev[1],
                    !.selected_idx = prev[2],
                    !.offset = prev[3]]
  ELSE t

\* one iteration of _main_loop: getch() and the branch of the key
KeyUp ==
  /\ tui.running
  /\ tui' = [key_up(tui) EXCEPT !.key = "up"]
  /\ UNCHANGED <<cfgvars, live, lock, accvars, stop_event, envvars, pc, framevars, result,
                 raised, obs>>

KeyDown ==
  /\ tui.running
  /\ tui' = [key_down(tui) EXCEPT !.key = "down"]
  /\ UNCHANGED <<cfgvars, live, lock, accvars, stop_event, envvars, pc, framevars, result,
                 raised, obs>>

KeyEnter ==
  /\ tui.running
  /\ tui' = [key_enter(tui) EXCEPT !.key = IF CanEnter(tui) THEN "enter" ELSE "enter_leaf"]
  /\ UNCHANGED <<cfgvars, live, lock, accvars, stop_event, envvars, pc, framevars, result,
                 raised, obs>>

KeyBack ==
  /\ tui.running
  /\ tui' = [key_back(tui) EXCEPT !.key = IF tui.history # <<>> THEN "back" ELSE "back_root"]
  /\ UNCHANGED <<cfgvars, live, lock, accvars, stop_event, envvars, pc, framevars, result,
                 raised, obs>>

KeyQuit ==
  /\ tui.running
  /\ tui' = [tui EXCEPT !.running = FALSE, !.key = "q"]
  /\ UNCHANGED <<cfgvars, live, lock, accvars, stop_event, envvars, pc, framevars, result,
                 raised, obs>>

\* ui.run() on one of the trees, no scan in progress
InitTui ==
  /\ method_arg = "walk"
  /\ has_find = TRUE
  /\ is_windows = FALSE
  /\ scan_method = determine_method(method_arg, is_windows, has_find)
  /\ use_cache = FALSE
  /\ max_depth = 2
  /\ fs = {}
  /\ listing = "name"
  /\ max_runs = 0
  /\ budget = 0
  /\ InitInstance
  /\ tui \in {TerminalUI(d, h) : d \in TuiData, h \in MinHeight..MaxHeight}
  /\ live = LiveOff

NextTui ==
  \/ KeyUp
  \/ KeyDown
  \/ KeyEnter
  \/ KeyBack
  \/ KeyQuit

SpecTui == InitTui /\ [][NextTui]_vars

(***************************************************************************)
(* main.py: run_scan_with_live_progress.  A worker thread runs             *)
(* analyzer.scan(on_progress, stop_event) while the calling thread polls:  *)
(* it draws latest_stats under the caller-side lock and sets the stop      *)
(* event when q is read.  The worker's walk is taken apart into the steps  *)
(* at which it takes and releases the two locks.                           *)
(***************************************************************************)
\* t.is_alive(): worker() has not returned yet
is_alive == pc # "done"

\* the result of an earlier run of the program on the then empty root, as
\* its cache file holds it
EarlierResult ==
  BuildResult(LeafTree(0), EmptyFn, <<>>, <<>>, MockHistory(0),
              [scanned_files |-> 0, scanned_bytes |-> 0, current_path |-> RootPath], 0)

\* the function has built the analyzer, the event and the lock and has
\* started the thread; an earlier run may have left a cache file
InitLive ==
  /\ method_arg = "walk"
  /\ has_find = TRUE
  /\ is_windows = FALSE
  /\ scan_method = determine_method(method_arg, is_windows, has_find)
  /\ use_cache \in BOOLEAN
  /\ max_depth = 2
  /\ fs = {fa, fb, fc}
  /\ listing = "name"
  /\ max_runs = 1
  /\ budget = MaxRunFaults
  /\ InitObject
  /\ stop_event = "clear"
  /\ cache_file \in {NoCache, [exists |-> TRUE, mtime |-> 0, data |-> EarlierResult]}
  /\ now \in {TickStep, CacheTTL}
  /\ tui = TuiOff
  /\ live = LiveStart

\* worker(): analyzer.scan(on_progress=on_progress, stop_event=stop_event);
\* `stop_event or threading.Event()` keeps the caller's event, set or not
LiveScanCall ==
  /\ live.on
  /\ pc = "idle"
  /\ obs.runs < max_runs
  /\ pc' = "cache_check"
  /\ FreshFrame
  /\ result' = NoResult
  /\ raised' = FALSE
  /\ obs' = [obs EXCEPT !.runs = @ + 1]
  /\ UNCHANGED <<cfgvars, appvars, lock, accvars, stop_event, envvars>>

\* the directory the walk is at
LiveDir == WalkSeq(fs, RootPath, max_depth)[idx]

\* the redraw reads the analyzer's scan_stats under the stats lock while it
\* holds the caller-side lock
CanPollDrawCopy_NeedsStatsLock == lock = "free"

\* what the calling thread waits for inside `with lock:`: nothing, it takes
\* no other lock there
CanPollDrawCopy == TRUE

\* `if self.stop_event.is_set(): break` does not break: the iteration begins
LiveWalkHead ==
  /\ live.on /\ pc = "walk" /\ live.wpc = "head"
  /\ idx <= Len(WalkSeq(fs, RootPath, max_depth))
  /\ stop_event # "set"
  /\ live' = [live EXCEPT !.wpc = "upd"]
  /\ UNCHANGED <<cfgvars, tui, lock, accvars, stop_event, envvars, pc, framevars, result,
                 raised, obs>>

\* the loop ends (exhausted, or break on the stop flag) and the tail runs
LiveWalkEnd ==
  /\ live.on /\ live.wpc = "head"
  /\ WalkEnd

\* _update_progress(0, 0, root): `with self.lock` is entered
LiveUpdLock ==
  /\ live.on /\ pc = "walk" /\ live.wpc = "upd"
  /\ lock = "free"
  /\ lock' = "held"
  /\ live' = [live EXCEPT !.wpc = "upd_in"]
  /\ UNCHANGED <<cfgvars, tui, accvars, stop_event, envvars, pc, framevars, result,
                 raised, obs>>

\* _update_progress: the update, and the lock is released
LiveUpd ==
  /\ live.on /\ pc = "walk" /\ live.wpc = "upd_in"
  /\ scan_stats' = UpdateProgress(scan_stats, 0, 0, LiveDir)
  /\ lock' = "free"
  /\ live' = [live EXCEPT !.wpc = "cb"]
  /\ UNCHANGED <<cfgvars, tui, file_types, top_files, cleanable_files, history_data,
                 stop_event, envvars, pc, framevars, result, raised, obs>>

\* `with self.lock:` around the callback is entered
LiveCbLock ==
  /\ live.on /\ pc = "walk" /\ live.wpc = "cb"
  /\ lock = "free"
  /\ lock' = "held"
  /\ live' = [live EXCEPT !.wpc = "cb_in"]
  /\ UNCHANGED <<cfgvars, tui, accvars, stop_event, envvars, pc, framevars, result,
                 raised, obs>>

\* on_progress(dict(self.scan_stats)): `with lock:` is entered, with the
\* stats lock held
LiveCbEnter ==
  /\ live.on /\ pc = "walk" /\ live.wpc = "cb_in"
  /\ live.lock = "free"
  /\ live' = [live EXCEPT !.wpc = "cb_upd", !.lock = "worker"]
  /\ UNCHANGED <<cfgvars, tui, lock, accvars, stop_event, envvars, pc, framevars, result,
                 raised, obs>>

\* latest_stats.update(stats); both locks are released
LiveCbUpdate ==
  /\ live.on /\ pc = "walk" /\ live.wpc = "cb_upd"
  /\ live' = [live EXCEPT !.wpc = "files", !.lock = "free", !.latest_stats = scan_stats]
  /\ lock' = "free"
  /\ UNCHANGED <<cfgvars, tui, accvars, stop_event, envvars, pc, framevars, result,
                 raised, obs>>

\* the rest of the iteration: the depth test and the files of the directory,
\* each counted by an _update_progress of its own
LiveFiles ==
  /\ live.on /\ pc = "walk" /\ live.wpc = "files"
  /\ LET got == IF DepthBelow(RootPath, LiveDir) > max_depth THEN <<>>
                ELSE Recorded(fs, LiveDir, {})
     IN /\ all_files' = all_files \o MapWalkInfo(got)
        /\ dir_sizes' = WalkDirSizes(dir_sizes, LiveDir, got)
        /\ scan_stats' = WalkProgress(scan_stats, got)
  /\ idx' = idx + 1
  /\ live' = [live EXCEPT !.wpc = "head"]
  /\ UNCHANGED <<cfgvars, tui, lock, file_types, top_files, cleanable_files, history_data,
                 stop_event, envvars, pc, batch_files, file_count, pending, dir_tree,
                 result, raised, obs>>

\* `while t.is_alive():` and the 0.2 s test of the redraw
PollCheck ==
  /\ live.on /\ live.ppc = "loop"
  /\ \E due \in BOOLEAN :
       live' = [live EXCEPT !.ppc = IF ~is_alive THEN "final"
                                    ELSE IF due THEN "draw" ELSE "key"]
  /\ UNCHANGED <<cfgvars, tui, lock, accvars, stop_event, envvars, pc, framevars, result,
                 raised, obs>>

\* `with lock:` of the redraw is entered
PollDrawLock ==
  /\ live.on /\ live.ppc = "draw"
  /\ live.lock = "free"
  /\ live' = [live EXCEPT !.ppc = "draw_in", !.lock = "poll"]
  /\ UNCHANGED <<cfgvars, tui, lock, accvars, stop_event, envvars, pc, framevars, result,
                 raised, obs>>

\* stats = dict(latest_stats); the lock is released and the line is drawn
PollDrawCopy ==
  /\ live.on /\ live.ppc = "draw_in"
  /\ CanPollDrawCopy
  /\ live' = [live EXCEPT !.ppc = "key", !.lock = "free", !.stats = live.latest_stats]
  /\ UNCHANGED <<cfgvars, tui, lock, accvars, stop_event, envvars, pc, framevars, result,
                 raised, obs>>

\* _read_key_nonblocking(): q sets the stop event, anything else does not
PollKey ==
  /\ live.on /\ live.ppc = "key"
  /\ \E q \in BOOLEAN : stop_event' = IF q THEN "set" ELSE stop_event
  /\ live' = [live EXCEPT !.ppc = "loop"]
  /\ UNCHANGED <<cfgvars, tui, lock, accvars, envvars, pc, framevars, result, raised, obs>>

\* after the loop: `with lock:` of the last redraw is entered
FinalLock ==
  /\ live.on /\ live.ppc = "final"
  /\ live.lock = "free"
  /\ live' = [live EXCEPT !.ppc = "final_in", !.lock = "poll"]
  /\ UNCHANGED <<cfgvars, tui, lock, accvars, stop_event, envvars, pc, framevars, result,
                 raised, obs>>

\* stats = dict(latest_stats); the lock is released and the line is drawn
FinalCopy ==
  /\ live.on /\ live.ppc = "final_in"
  /\ live' = [live EXCEPT !.ppc = "ret", !.lock = "free", !.stats = live.latest_stats]
  /\ UNCHANGED <<cfgvars, tui, lock, accvars, stop_event, envvars, pc, framevars, result,
                 raised, obs>>

\* raise result_holder["error"], or
\* return analyzer, result_holder["tree"], stop_event.is_set()
LiveReturn ==
  /\ live.on /\ live.ppc = "ret"
  /\ live' = [live EXCEPT
                !.ppc = "end",
                !.out = IF raised THEN [kind |-> "raise"]
                        ELSE [kind |-> "return", tree |-> result,
                              stopped |-> (stop_event = "set")]]
  /\ UNCHANGED <<cfgvars, tui, lock, accvars, stop_event, envvars, pc, framevars, result,
                 raised, obs>>

\* the steps of the worker thread and those of the calling thread
NextLive ==
  \/ LiveScanCall
  \/ CacheMiss
  \/ CacheStatRaises
  \/ CacheLoadFails
  \/ CacheHit
  \/ LiveWalkHead
  \/ LiveUpdLock
  \/ LiveUpd
  \/ LiveCbLock
  \/ LiveCbEnter
  \/ LiveCbUpdate
  \/ LiveFiles
  \/ LiveWalkEnd
  \/ StopCheck
  \/ PostProcess
  \/ PollCheck
  \/ PollDrawLock
  \/ PollDrawCopy
  \/ PollKey
  \/ FinalLock
  \/ FinalCopy
  \/ LiveReturn

SpecLive == InitLive /\ [][NextLive]_vars

(***************************************************************************)
(* Properties.                                                             *)
(***************************************************************************)
Returns == pc = "done" /\ ~raised
IsPartial(r) == "partial" \in DOMAIN r
IsError(r) == "error" \in DOMAIN r
IsComplete(r) == "scan_time" \in DOMAIN r

RECURSIVE SumValues(_)
SumValues(f) ==
  IF DOMAIN f = {} THEN 0
  ELSE LET k == CHOOSE x \in DOMAIN f : TRUE
       IN f[k] + SumValues([x \in DOMAIN f \ {k} |-> f[x]])

Occurrences(s, x) == Cardinality({i \in 1..Len(s) : s[i] = x})

\* C1: with caching disabled, a later complete scan() on the same instance
\* reports the same scanned_files, scanned_bytes, top_files, file_types and
\* cleanable entries as the first complete one: nothing leaks between runs
\* (stated for runs without injected failures).
C1_NoLeakBetweenRuns ==
  (/\ Returns /\ ~use_cache /\ obs.runs >= 2 /\ obs.faults = 0
   /\ IsComplete(result) /\ IsComplete(obs.first_result))
  => /\ result.scan_stats.scanned_files = obs.first_result.scan_stats.scanned_files
     /\ result.scan_stats.scanned_bytes = obs.first_result.scan_stats.scanned_bytes
     /\ result.top_files = obs.first_result.top_files
     /\ result.file_types = obs.first_result.file_types
     /\ result.cleanable_files = obs.first_result.cleanable_files

\* C2: a scan on a new instance by a strategy that polls the stop flag,
\* cancelled mid-run, returns scanned_bytes equal to the sum of the sizes of
\* the files recorded into the aggregates and scanned_files equal to their
\* number (stated for runs without injected failures).
C2_CancelledStatsExact ==
  (/\ Returns /\ IsPartial(result) /\ obs.runs = 1 /\ obs.faults = 0
   /\ scan_method \in {"fastfind", "fastwalk", "walk"})
  => /\ result.scan_stats.scanned_bytes = SumValues(result.file_types)
     /\ result.scan_stats.scanned_files = Len(obs.inserted)

\* C3: when a strategy was dispatched and the stop flag was set before the
\* strategy returned, scan() returns a result with partial = true and no
\* 'error' key, under every method and whatever failures occurred.
C3_CancelYieldsPartial ==
  (pc = "done" /\ obs.dispatched /\ obs.cancel_at = "running")
  => /\ ~raised
     /\ IsPartial(result) /\ result.partial = TRUE
     /\ ~IsError(result)

\* C3 witness: a cancelled run that also saw a failure returned a partial
\* result holding what it had counted.
C3_Witness ==
  /\ pc = "done" /\ obs.dispatched /\ obs.cancel_at = "running"
  /\ obs.faults > 0
  /\ IsPartial(result) /\ result.scan_stats.scanned_files > 0

\* C4: scan() never lets an exception escape, and a result carrying an error
\* message is the degraded one: total_size 0 and tree size 0.
C4_NoExceptionEscapes ==
  /\ ~raised
  /\ (pc = "done" /\ IsError(result))
       => result.total_size = 0 /\ result.dir_tree.size = 0

\* C5: when scan() finds a cache entry, an entry younger than the TTL that
\* loads is returned and equals the result that was written, and an entry
\* whose age has reached the TTL is a miss: a strategy is dispatched.
C5_CacheRoundTrip ==
  (pc = "done" /\ use_cache /\ obs.check_age >= 0)
  => /\ (obs.check_age < CacheTTL /\ ~obs.load_failed)
          => (obs.hit /\ ~raised /\ result = obs.written)
     /\ obs.check_age >= CacheTTL => (obs.dispatched /\ ~obs.hit)

\* C5 witness: a hit on an entry that has aged, but less than the TTL.
C5_Witness ==
  /\ pc = "done" /\ obs.hit
  /\ obs.check_age > 0 /\ obs.check_age < CacheTTL
  /\ result = obs.written /\ IsComplete(result)

\* C6: the cache entry is only ever written by a run whose traversal was not
\* cut short by an internally caught failure.
C6_CacheOnlyFromCompleteRun ==
  cache_file.exists => ~obs.written_cut

\* C7: a step of scan() that returns from the cache check leaves scan_stats,
\* top_files, file_types, cleanable_files, the strategy's locals and the
\* cache entry unchanged, dispatches no strategy and returns the entry.
C7_HitShortCircuits ==
  [][(pc = "cache_check" /\ pc' = "done" /\ ~raised')
       => /\ UNCHANGED <<scan_stats, top_files, file_types, cleanable_files>>
          /\ UNCHANGED <<cache_file, framevars>>
          /\ ~obs'.dispatched
          /\ result' = cache_file.data]_vars

\* C7 witness: a call answered from the cache on an instance whose counters
\* hold an earlier run's files.
C7_Witness ==
  /\ pc = "done" /\ obs.hit /\ ~obs.dispatched
  /\ scan_stats.scanned_files > 0
  /\ result = cache_file.data

\* C8: within one run the top-K structure holds min(K, files inserted in the
\* run) entries, and no held entry is smaller than an inserted one it lacks.
C8_TopKInvariant ==
  /\ Len(top_files) = Min(top_n_limit, Len(obs.inserted))
  /\ \A x \in SeqToSet(obs.inserted) :
       Occurrences(obs.inserted, x) > Occurrences(top_files, x)
         => \A i \in 1..Len(top_files) : top_files[i][1] >= x[1]

\* C9: in a returned tree, a node with children has the size of the sum of
\* its children's sizes (stated for runs without injected failures).
C9_SizeIsSumOfChildren ==
  (/\ Returns /\ "dir_tree" \in DOMAIN result /\ obs.faults = 0
   /\ result.dir_tree.children # <<>>)
  => result.dir_tree.size = SumSizes(result.dir_tree.children)

\* C10: in a returned tree the root's percentage is 100 when the total size
\* is positive and 0 when it is 0, and every child's lies in [0, 100]
\* (stated for runs without injected failures).
C10_PercentagesInRange ==
  (Returns /\ "dir_tree" \in DOMAIN result /\ obs.faults = 0)
  => /\ result.dir_tree.percentage =
          (IF result.dir_tree.size > 0 THEN 100 * 100 ELSE 0)
     /\ \A i \in 1..Len(result.dir_tree.children) :
          /\ result.dir_tree.children[i].percentage >= 0
          /\ result.dir_tree.children[i].percentage <= 100 * 100

\* every directory of the tree is at most depth levels below the root
WithinDepth(tree, depth) == \A d \in DirsOf(tree) : DepthBelow(RootPath, d) <= depth

InsertedPaths == {obs.inserted[i][2] : i \in 1..Len(obs.inserted)}

\* C11: after a completed, undisturbed SequentialWalk of a tree that lies
\* within the depth limit, total_size equals the sum of the sizes of the
\* files, each counted once, and equals scan_stats.scanned_bytes.
C11_TotalIsSumOfFiles ==
  (/\ Returns /\ IsComplete(result) /\ scan_method = "walk"
   /\ obs.runs = 1 /\ obs.faults = 0 /\ obs.cancel_at = "none"
   /\ WithinDepth(fs, max_depth))
  => /\ result.total_size = SumSet(fs)
     /\ result.total_size = result.dir_tree.size
     /\ result.total_size = result.scan_stats.scanned_bytes

\* C13: when a completed scan processed two files with the same bytes in
\* different directories, the older modified before the newer, the result's
\* duplicate_files holds exactly one group, [newer, older].
C13_DuplicatesAreFound ==
  (Returns /\ IsComplete(result) /\ obs.faults = 0)
  => \A f, g \in fs :
       (/\ ContentOf(f) = ContentOf(g) /\ f.dir # g.dir /\ f.mtime < g.mtime
        /\ {f.path, g.path} \subseteq InsertedPaths)
       => /\ Cardinality(DOMAIN result.duplicate_files) = 1
          /\ \E h \in DOMAIN result.duplicate_files :
               result.duplicate_files[h] = <<g.path, f.path>>

\* the text fixed for each risk level
LevelText ==
  <<"high risk, never delete", "medium risk, back up before deleting",
    "low risk, safe to delete", "safe, delete freely">>

\* C14: every security suggestion of a returned result has a level in 1..4
\* and the text fixed for that level, and a level 1 entry never carries a
\* text that calls the file safe to delete.
C14_SuggestionsMatchLevel ==
  (Returns /\ "security_suggestions" \in DOMAIN result)
  => \A i \in 1..Len(result.security_suggestions) :
       LET e == result.security_suggestions[i]
       IN /\ e.security_level \in 1..4
          /\ e.suggestion = LevelText[e.security_level]
          /\ e.security_level = 1
               => e.suggestion \notin {LevelText[3], LevelText[4]}

\* C14 witness: a completed result carries a level 1 and a level 2 entry.
C14_Witness ==
  /\ Returns /\ IsComplete(result)
  /\ \E i, j \in 1..Len(result.security_suggestions) :
       /\ result.security_suggestions[i].security_level = 1
       /\ result.security_suggestions[i].path = "/r/etc/d.tmp"
       /\ result.security_suggestions[j].security_level = 2

\* C15: the partial result of a cancelled scan that had processed files of a
\* subdirectory has that subdirectory among the root's children (stated for
\* runs without injected failures).
C15_PartialTreeHasSubtrees ==
  (/\ Returns /\ IsPartial(result) /\ obs.faults = 0
   /\ \E p \in InsertedPaths : Dirname(p) # RootPath)
  => /\ result.dir_tree.children # <<>>
     /\ result.dir_tree.children = dir_tree.children

\* the files a complete SequentialWalk records: those in directories at most
\* depth levels below the root that no exclusion rule matches
WalkedFiles(tree, depth) ==
  {f \in tree : DepthBelow(RootPath, f.dir) <= depth /\ ~should_skip(f.path)}

PathsOf(S) == {f.path : f \in S}

\* C16: while control is inside the progress callback the stats lock is
\* free, so a callback that takes the lock cannot block.
C16_CallbackOutsideLock ==
  pc = "in_callback" => lock = "free"

\* C17: a completed scan whose callback raised once, with no other failure
\* and no stop, was neither cut short nor restarted by a fallback, and a
\* SequentialWalk counted every file within the depth limit.
C17_CallbackErrorIgnored ==
  (/\ Returns /\ IsComplete(result) /\ obs.runs = 1 /\ obs.cancel_at = "none"
   /\ obs.cb_raised /\ obs.faults = 1)
  => /\ ~obs.cut_short
     /\ obs.fallback # "callback"
     /\ obs.entered = "walk"
          => result.scan_stats.scanned_files =
               Cardinality(WalkedFiles(fs, max_depth))

\* the scan was carried out by SequentialWalk without a failed setup
PlainWalk == obs.entered = "walk" \/ obs.fallback \in {"no_tool", "windows", "pool"}

\* C18: a SequentialWalk in which stat failed on some files, and nothing
\* else failed, completes with a normal result that records every other
\* file within the depth limit; a ParallelWalk sub-task returns every file
\* of its subtree within its depth limit but those whose stat failed.
C18_StatErrorSkipsOneFile ==
  /\ (/\ pc = "done" /\ PlainWalk /\ obs.runs = 1 /\ obs.cancel_at = "none"
      /\ Cardinality(obs.stat_failed) = obs.faults)
     => /\ ~raised /\ IsComplete(result)
        /\ InsertedPaths = PathsOf(WalkedFiles(fs, max_depth)) \ obs.stat_failed
        /\ result.scan_stats.scanned_files = Cardinality(InsertedPaths)
  /\ \A d \in SeqToSet(FirstLevelDirs(fs)) :
       \A bad \in SUBSET {f \in fs : IsUnder(d, f.dir)} :
         LET r == ScanSingleDir(fs, d, max_depth - 1, bad)
             want == {f \in fs : /\ IsUnder(d, f.dir)
                                 /\ DepthBelow(d, f.dir) <= max_depth - 1
                                 /\ ~should_skip(f.path)
                                 /\ f \notin bad}
         IN /\ {r.dir_files[i].path : i \in 1..Len(r.dir_files)} = PathsOf(want)
            /\ r.dir_size = SumSet(want)

\* C18 witness: a completed walk that could not stat one file and recorded
\* another.
C18_Witness ==
  /\ Returns /\ IsComplete(result) /\ obs.entered = "walk"
  /\ obs.stat_failed # {} /\ Cardinality(obs.stat_failed) = obs.faults
  /\ InsertedPaths # {}

\* C19: when fastfind finds no tool or cannot start its process, or
\* fastwalk fails to set up its pool (also with no first-level directory),
\* and nothing else fails, scan() returns without raising a result without
\* 'error', and unless stopped it is the complete result of a SequentialWalk.
C19_SetupFailureFallsBack ==
  (/\ pc = "done" /\ obs.runs = 1
   /\ obs.fallback \in {"no_tool", "popen", "setup", "pool"}
   /\ obs.faults = (IF obs.fallback \in {"popen", "setup"} THEN 1 ELSE 0))
  => /\ ~raised /\ ~IsError(result)
     /\ obs.cancel_at = "none"
          => /\ IsComplete(result)
             /\ InsertedPaths = PathsOf(WalkedFiles(fs, max_depth))
             /\ result.scan_stats.scanned_files =
                  Cardinality(WalkedFiles(fs, max_depth))

\* C19 witness: the find process could not be started and the walk recorded
\* the files.
C19_Witness ==
  /\ Returns /\ IsComplete(result) /\ obs.fallback = "popen"
  /\ obs.entered = "find_start" /\ InsertedPaths # {}

\* the strategy each constructor argument names; 'auto' asks the probe
NamedStrategy(arg) ==
  CASE arg \in {"fastfind", "find"} -> "find_start"
    [] arg \in {"fastwalk", "fast"} -> "fw_start"
    [] arg = "walk"                 -> "walk"
    [] arg = "du"                   -> "du"
    [] arg = "hybrid"               -> "hybrid"
    [] OTHER -> IF is_windows THEN "fw_start"
                ELSE IF has_find THEN "find_start" ELSE "walk"

\* C20: the strategy scan() dispatches to is the one the constructor's
\* method argument names, whatever the probe found, and for 'auto' the one
\* the probe selects.
C20_MethodSelectsStrategy ==
  obs.dispatched => obs.entered = NamedStrategy(method_arg)

\* C21: generating a report leaves the caller's result dict exactly as it
\* was: the same keys, and the same value under every key.
C21_ReportLeavesResult ==
  pc = "reported" => result = obs.report_in

\* C22: in the browser, Enter on a directory followed by Back restores the
\* node shown, the selected index and the scroll offset; the history holds
\* one entry per Enter not yet undone (the entries are the chain of nodes
\* from the root to the node shown); Back with no history changes nothing.
C22_EnterBackRoundTrip ==
  LET h == tui.history
      same(a, b) == [a EXCEPT !.key = "none"] = [b EXCEPT !.key = "none"]
      child(e) == e[1].children[e[2] + 1]
  IN /\ CanEnter(tui) => same(key_back(key_enter(tui)), tui)
     /\ h = <<>> => /\ same(key_back(tui), tui)
                    /\ tui.data = tui.root_data
     /\ h # <<>> => /\ h[1][1] = tui.root_data
                    /\ \A i \in 1..(Len(h) - 1) : h[i + 1][1] = child(h[i])
                    /\ tui.data = child(h[Len(h)])

\* a directory was entered with the cursor moved and the list scrolled, and
\* Back has just returned to it
C22_Witness ==
  /\ tui.key = "back"
  /\ tui.selected_idx > 0
  /\ tui.offset > 0
  /\ CanEnter(tui)

\* C24: with the stop flag set, the scan() call in progress is never in a
\* wait that only the external listing process can end (such a wait has no
\* step of scan() leaving it, so the call would not return).
C24_CancelNeverWaitsOnProcess ==
  ~(stop_event = "set" /\ pc = "find_blocked")

\* the files of the subtree of first-level directory d
Subtree(d) == {f \in fs : IsUnder(d, f.dir)}

C26_StatsOnlyUnderLock ==
  pc = "hybrid_merge" => lock = "held"

\* C27: no strategy counts a symbolic link: a link is not among the paths
\* handed to the aggregates (which feed scan_stats and the sizes of the
\* tree), none is in top_files, and none has its extension in the histogram.
C27_SymlinksSkipped ==
  (Returns /\ ~IsError(result))
  => /\ InsertedPaths \cap PathsOf({f \in fs : f.link}) = {}
     /\ \A i \in 1..Len(result.top_files) :
           result.top_files[i].path \notin PathsOf({f \in fs : f.link})
     /\ IsComplete(result) => ".lnk" \notin DOMAIN result.file_types

\* C28: the depth limit elides structure, not size: after a completed,
\* undisturbed SequentialWalk every regular file of the tree, whatever its
\* depth, has its size in scan_stats.scanned_bytes and in the root's total.
C28_DepthKeepsSize ==
  (Returns /\ IsComplete(result) /\ obs.entered = "walk" /\ obs.faults = 0
   /\ obs.cancel_at = "none" /\ \A f \in fs : ~f.link)
  => /\ result.scan_stats.scanned_bytes = SumSet(fs)
     /\ result.total_size >= SumSet(fs)
     /\ PathsOf(fs) \subseteq InsertedPaths

\* C29: ParallelWalk submits one task for every first-level subdirectory, so
\* after a completed, undisturbed ParallelWalk the files of every first-level
\* subdirectory (down to the depth the sub-task is given) are counted.
C29_EverySubdirCounted ==
  (Returns /\ IsComplete(result) /\ obs.entered = "fw_start" /\ obs.fallback = "none"
   /\ obs.faults = 0 /\ obs.cancel_at = "none")
  => \A i \in 1..Len(FirstLevelDirs(fs)) :
       LET d == FirstLevelDirs(fs)[i]
       IN /\ \A f \in Subtree(d) :
               DepthBelow(d, f.dir) <= max_depth - 1 => f.path \in InsertedPaths
          /\ \E j \in 1..Len(result.dir_tree.children) :
               result.dir_tree.children[j].path = d

\* C30: a completed, undisturbed Hybrid scan of a root that holds files has
\* counted them (scanned_files > 0), and when a subdirectory holds files the
\* merged tree has children; its size is at least the summary total.
C30_HybridHasDetail ==
  (Returns /\ IsComplete(result) /\ obs.entered = "hybrid" /\ obs.faults = 0
   /\ obs.cancel_at = "none" /\ fs # {})
  => /\ result.scan_stats.scanned_files > 0
     /\ (\E f \in fs : f.dir # RootPath) => result.dir_tree.children # <<>>
     /\ result.total_size >= DuOutput(fs)

\* "d1" < "etc": the order of the names of the model's first-level directories
NameBefore(p, q) == p = "/r/d1" /\ q = "/r/etc"

\* C31: in the tree of every completed result the root's children are in
\* descending order of size, children of equal size are in the order of
\* their names, and at most ChildCap children are kept.
C31_ChildrenSortedBySizeThenName ==
  (Returns /\ IsComplete(result))
  => LET ch == result.dir_tree.children
     IN /\ Len(ch) <= ChildCap
        /\ \A i, j \in 1..Len(ch) :
             i < j => \/ ch[i].size > ch[j].size
                      \/ ch[i].size = ch[j].size /\ NameBefore(ch[i].path, ch[j].path)

\* C32: the top_files list of every result scan() returns, complete or
\* partial, is in descending order of size and has at most ResultTopCap
\* entries.
C32_TopFilesDescending ==
  (Returns /\ ~IsError(result))
  => /\ Len(result.top_files) <= ResultTopCap
     /\ \A i, j \in 1..Len(result.top_files) :
          i < j => result.top_files[i].size >= result.top_files[j].size

\* C33: cache failures are invisible.  When, during a scan() call, the
\* validity check or the load of the cache entry fails, or the write of the
\* result fails, the call raises nothing and returns a result: after a failed
\* check or load a strategy was dispatched as it is without a cache, and
\* after a failed write the result is the complete one that was built.
C33_CacheFailuresInvisible ==
  (pc = "done" /\ obs.cache_fault # "none")
  => /\ ~raised
     /\ result # NoResult
     /\ obs.cache_fault \in {"stat", "load"} => obs.dispatched
     /\ obs.cache_fault = "write" => IsComplete(result)

\* C34: the cache entry is shared between configurations.  When a scan()
\* with caching enabled checks the cache while the entry that an analyzer
\* with another scan method or max_depth wrote for the same root is younger
\* than the TTL, the call returns that written result unchanged (unless
\* reading the entry fails).
C34_SharedCacheEntry ==
  [][(/\ pc = "cache_check" /\ use_cache
      /\ obs.written # NoResult
      /\ obs.writer # <<scan_method, max_depth>>
      /\ now - obs.written_at < CacheTTL
      /\ pc' # "cache_check")
     => \/ pc' = "done" /\ ~raised' /\ result' = obs.written
        \/ obs'.cache_fault # "none"]_vars

C34_Witness ==
  /\ pc = "done" /\ ~raised /\ obs.hit
  /\ obs.writer # <<>>
  /\ obs.writer[1] # scan_method
  /\ obs.writer[2] # max_depth
  /\ result = obs.written
  /\ IsComplete(result)

\* C35: every per-entry error is recorded.  After a walk has returned, the
\* analyzer's skipped_paths holds exactly the paths of the files whose stat
\* failed during the walk: as many entries as files skipped for an error.
C35_SkippedPathsRecorded ==
  (Returns /\ obs.entered = "walk")
  => /\ Len(skipped_paths) = Cardinality(obs.stat_failed)
     /\ SeqToSet(skipped_paths) = obs.stat_failed

\* the paths among a sequence of file_info records / of (size, path) pairs
InfoPaths(infos) == {infos[i].path : i \in 1..Len(infos)}
PairPaths(pairs) == {pairs[i][2] : i \in 1..Len(pairs)}

\* the paths of the scanned tree that match an exclusion rule
ExcludedPaths == {f.path : f \in {g \in fs : ExtOf(g.path) = ".pyc"}}

\* C36: exclusion is respected by fastfind, fastwalk and walk.  At no point
\* of a scan by one of them is a file whose path matches an exclusion rule
\* among the files fed to the aggregates, in top_files, in cleanable_files or
\* in the histogram, nor the file last counted in scan_stats; and the
\* counters, the histogram and the root's size are 0 when every counted file
\* would be an excluded one.
C36_ExclusionRespected ==
  (obs.entered \in {"find_start", "fw_start", "walk"})
  => /\ InfoPaths(all_files) \cap ExcludedPaths = {}
     /\ InfoPaths(batch_files) \cap ExcludedPaths = {}
     /\ PairPaths(top_files) \cap ExcludedPaths = {}
     /\ InfoPaths(cleanable_files) \cap ExcludedPaths = {}
     /\ InsertedPaths \cap ExcludedPaths = {}
     /\ ".pyc" \notin DOMAIN file_types
     /\ scan_stats.current_path \notin ExcludedPaths
     /\ (Returns /\ ~IsError(result))
          => InfoPaths(result.top_files) \cap ExcludedPaths = {}
     /\ (PathsOf(fs) \subseteq ExcludedPaths)
          => /\ scan_stats.scanned_files = 0 /\ scan_stats.scanned_bytes = 0
             /\ file_types = EmptyFn
             /\ dir_sizes = <<>> \/ OdGet(dir_sizes, RootPath) = 0
             /\ (Returns /\ ~IsError(result)) => result.total_size = 0

C36_Witness ==
  /\ Returns /\ IsComplete(result)
  /\ obs.entered \in {"find_start", "fw_start", "walk"}
  /\ fp \in fs
  /\ result.total_size > 0

\* C37: the statistics agree with the aggregates.  After a completed,
\* undisturbed scan on a new instance, by any strategy, scanned_files is the
\* number of files fed to the aggregates and scanned_bytes is the sum of the
\* values of the result's histogram; the result of Hybrid holds the histogram
\* and the top files of its inner walk.
C37_StatsAgreeWithAggregates ==
  (/\ Returns /\ IsComplete(result)
   /\ obs.runs = 1 /\ obs.faults = 0 /\ obs.cancel_at = "none")
  => /\ result.scan_stats.scanned_files = Len(obs.inserted)
     /\ result.scan_stats.scanned_bytes = SumValues(result.file_types)
     /\ (obs.entered = "hybrid" /\ WalkedFiles(fs, max_depth) # {})
          => /\ result.file_types # EmptyFn
             /\ Len(result.top_files) > 0

\* what a SequentialWalk alone on a new instance feeds to the aggregates and
\* what the aggregates then hold
WalkAloneFiles ==
  MapWalkInfo(ConcatDirs(fs,
                         Filter(WalkSeq(fs, RootPath, max_depth),
                                {d \in DirsOf(fs) : DepthBelow(RootPath, d) <= max_depth}),
                         {}))
WalkAlone ==
  ProcessBatch([ft |-> EmptyFn, top |-> <<>>, cl |-> <<>>, ds |-> <<>>], WalkAloneFiles)

\* the result agrees with that of a SequentialWalk alone in its counters,
\* top files, histogram and cleanable entries
SameAsWalkAlone(res) ==
  /\ res.scan_stats.scanned_files = Len(WalkAloneFiles)
  /\ res.scan_stats.scanned_bytes = SumSizes(WalkAloneFiles)
  /\ res.top_files = TopList(Take(SortedDesc(WalkAlone.top), ResultTopCap))
  /\ res.file_types = WalkAlone.ft
  /\ res.cleanable_files = Take(Take(WalkAlone.cl, CleanableCap), ResultCleanableCap)

\* C38: the fallback counts nothing twice.  When CommandStream fails after
\* it has taken records in and falls back to SequentialWalk, and nothing
\* else fails and nobody cancels, the completed scan returns the counters,
\* top files, histogram and cleanable entries of a SequentialWalk alone.
C38_FallbackCountsOnce ==
  (/\ Returns /\ IsComplete(result) /\ obs.runs = 1
   /\ obs.entered = "find_start" /\ obs.fallback \in {"callback", "stream"}
   /\ file_count > 0
   /\ obs.faults = 1 /\ obs.cancel_at = "none")
  => SameAsWalkAlone(result)

\* C39: the 'stopped' flag agrees with the result.  When
\* run_scan_with_live_progress returns, stopped is true if and only if the
\* returned result has partial = true.
C39_StoppedAgreesWithResult ==
  (live.ppc = "end" /\ live.out.kind = "return")
  => (live.out.stopped <=> IsPartial(live.out.tree))

\* how far the worker thread has come
WorkerRank ==
  LET stage == CASE pc = "idle" -> 0 [] pc = "cache_check" -> 1 [] pc = "walk" -> 2
                 [] pc = "stop_check" -> 3 [] pc = "post" -> 4 [] OTHER -> 5
      step == CASE live.wpc = "head" -> 0 [] live.wpc = "upd" -> 1
                [] live.wpc = "upd_in" -> 2 [] live.wpc = "cb" -> 3
                [] live.wpc = "cb_in" -> 4 [] live.wpc = "cb_upd" -> 5 [] OTHER -> 6
  IN stage * 1000 + idx * 10 + step

\* how far the calling thread is from its return once the worker finished
PollerRank ==
  CASE live.ppc = "draw" -> 0 [] live.ppc = "draw_in" -> 1 [] live.ppc = "key" -> 2
    [] live.ppc = "loop" -> 3 [] live.ppc = "final" -> 4 [] live.ppc = "final_in" -> 5
    [] live.ppc = "ret" -> 6 [] OTHER -> 7

\* the worker, the calling thread, is at a `with` statement and cannot enter
WorkerWaits ==
  /\ pc = "walk"
  /\ \/ live.wpc \in {"upd", "cb"} /\ lock # "free"
     \/ live.wpc = "cb_in" /\ live.lock # "free"
PollerWaits ==
  \/ live.ppc \in {"draw", "final"} /\ live.lock # "free"
  \/ live.ppc = "draw_in" /\ ~CanPollDrawCopy

\* what holds of the locks, of the threads' ability to move and of the
\* outcome in every state of run_scan_with_live_progress
LiveSafe ==
  /\ live.lock = "worker" => lock = "held"
  /\ live.lock = "poll" => live.ppc \in {"draw_in", "final_in"}
  /\ live.ppc # "end" => ~(PollerWaits /\ (WorkerWaits \/ ~is_alive))
  /\ ~is_alive => ~PollerWaits
  /\ live.ppc \in {"final", "final_in", "ret", "end"} => ~is_alive
  /\ live.ppc = "end"
       => /\ raised => live.out.kind = "raise"
          /\ ~raised => /\ live.out.kind = "return"
                        /\ live.out.tree = result
                        /\ result # NoResult

\* C40: the caller/worker split cannot deadlock and terminates.  The worker
\* takes the caller-side lock only inside the stats lock and the polling
\* thread never holds the stats lock; as long as the function has not
\* returned some thread can take a step, and once the worker has finished
\* the polling thread can; every step of the worker brings it nearer to its
\* end and after the loop test failed the caller only moves on to the
\* return; the function returns the worker's result or raises the worker's
\* exception, and only after the worker has finished.
C40_NoDeadlockAndReturns ==
  [][/\ LiveSafe
     /\ LiveSafe'
     /\ <<pc, idx, live.wpc>>' # <<pc, idx, live.wpc>> => WorkerRank' > WorkerRank
     /\ (~is_alive /\ live.ppc' # live.ppc) => PollerRank' > PollerRank]_vars

\* the function returned the partial result of a scan whose callback had
\* updated latest_stats and that the user stopped
C40_Witness ==
  /\ live.ppc = "end"
  /\ live.out.kind = "return"
  /\ IsPartial(live.out.tree)
  /\ live.latest_stats.current_path # RootPath

====
